---- MODULE Spec2Model ----
(***************************************************************************)
(* Model of linear-github-cli: the Linear sync-wait poller                 *)
(* (LinearClientWrapper.waitForIssueByGitHubUrl), the Linear metadata      *)
(* reconciliation (findOrCreateLabel, setIssueLabels, updateIssueMetadata) *)
(* and the create-parent command that sequences them.                      *)
(*                                                                         *)
(* JavaScript values are encoded as follows: a string that is null,        *)
(* undefined or empty is "" (all three are falsy and the code only tests   *)
(* truthiness); an optional number is a pair (given flag, value).          *)
(***************************************************************************)
EXTENDS Integers, Sequences, FiniteSets, TLC

(***************************************************************************)
(* Bounds of the model                                                     *)
(***************************************************************************)
\* maxAttempts values tried in a direct poller call: -1 .. MaxAttemptsBound
MaxAttemptsBound == 3
\* the lookup first finds the issue on call 1 .. MaxFoundAt (or never)
MaxFoundAt == 3
\* the lookup throws on call 1 .. MaxThrowAt (or never)
MaxThrowAt == 2
\* number of label names selected in promptIssueDetails
MaxLabels == 2

(***************************************************************************)
(* Program constants                                                       *)
(***************************************************************************)
\* options.delayMs ?? 5000
DefaultDelayMs == 5000
\* create-parent.ts: const linearSyncDelayMs = 500
linearSyncDelayMs == 500
\* create-parent.ts: const linearSyncMaxWaitMs = 10000
linearSyncMaxWaitMs == 10000
\* create-parent.ts: Math.floor(linearSyncMaxWaitMs / linearSyncDelayMs) + 1
linearSyncMaxAttempts == (linearSyncMaxWaitMs \div linearSyncDelayMs) + 1

\* The loop counter is a JavaScript number: it is tracked exactly up to
\* CounterCap, which lies above every finite maxAttempts, foundAt and throwAt
\* of the model, and stays there (a double stops growing at 2^53).
CounterCap == linearSyncMaxAttempts + MaxFoundAt + MaxThrowAt + MaxAttemptsBound + 2

Bump(n) == IF n < CounterCap THEN n + 1 ELSE n

\* the opaque ID of the Linear issue synced from the GitHub issue
LinearIssueId == "lin-issue-1"

VARIABLES
  cmd,          \* entry point of this run: "waitForIssueByGitHubUrl" | "createParentIssue"
  pc,           \* position of the run
  exitCode,     \* process exit status: -1 while running, 0 or 1 once decided
  options,      \* poller options: [maxAttemptsGiven, maxAttempts, delayMsGiven, delayMs, onRetry]
  attempt,      \* poller loop counter
  lookups,      \* number of findIssueByGitHubUrl calls made
  retries,      \* number of onRetry callback invocations
  sleeps,       \* number of setTimeout sleeps
  slept,        \* total milliseconds slept
  issueId,      \* poller local: result of the last lookup ("" = null)
  pollStatus,   \* "idle" | "running" | "returned" | "threw"
  foundAt,      \* environment: first lookup call that returns the issue (0 = never)
  throwAt,      \* environment: lookup call that raises a network error (0 = never)
  apiKeySet,    \* process.env.LINEAR_API_KEY is set
  details,      \* promptIssueDetails result: [dueDate, startDate, labels]
  githubProject,\* selectProject result ("" = none)
  ghIssues,     \* number of GitHub issues created by this run
  projectDates, \* outcome of setProjectDateFields: "skipped" | "set" | "failed"
  linearProjectId, \* Linear project resolved for the issue ("" = none)
  issueTeam,    \* environment: team of the Linear issue
  labelStore,   \* environment: Linear labels of each team, in listing order
  issue,        \* environment: fields of the Linear issue [dueDate, projectId, labelIds]
  labelIdx,     \* setIssueLabels: index of the next label name to resolve
  labelIds,     \* setIssueLabels: label IDs collected so far
  silResult,    \* setIssueLabels: returned list (<<>> before the call and on failure)
  silStatus,    \* setIssueLabels: "idle" | "running" | "returned"
  foclLog,      \* findOrCreateLabel calls made: [teamId, name, listed, ret]
  calls,        \* updateIssueMetadata invocations: [dueDate, projectId, labelIds, from]
  writes,       \* Linear mutations sent: [op, teamId, name, input, applied]
  faults,       \* kinds of external failure that occurred in this run
  branchCreated,\* a git branch was created
  projPages,    \* environment: number of pages the project's item list spans
  itemPage,     \* environment: page that holds the issue's project item
  itemFrom,     \* environment: first lookup attempt that sees the item (0 = never)
  failAttempts, \* environment: lookup attempts in which a page query fails
  failPage,     \* environment: page whose query fails in those attempts
  maxRetries,   \* getProjectItemId: parameter
  gpAttempt,    \* getProjectItemId: loop counter
  cursor,       \* getProjectItemId: endCursor of the last page read (0 = null)
  hasNextPage,  \* getProjectItemId: pageInfo.hasNextPage of the last page read
  allItems,     \* getProjectItemId: items collected in the current attempt
  gpQueries,    \* page queries issued: <<attempt, page>>
  gpOutcomes,   \* outcome of each finished attempt: "found" | "missing" | "threw"
  gpWaits,      \* milliseconds of each wait between attempts
  gpStatus,     \* getProjectItemId: "idle" | "running" | "returned"
  itemId,       \* value returned by getProjectItemId (0 = null)
  targetDate,   \* setProjectDateFields: parameter ("" = undefined)
  startDate,    \* setProjectDateFields: parameter ("" = undefined)
  ghProjectId,  \* setProjectDateFields: local projectId, the project node ID ("" = null)
  spdfSuccess,  \* setProjectDateFields: local flag success
  dateLog,      \* date-field steps taken: [field, step]
  spdfStatus,   \* setProjectDateFields: "idle" | "running" | "returned"
  spdfResult,   \* value returned by setProjectDateFields
  branchUtils,  \* build: which version of branch-utils the commands were compiled with
  args,         \* arguments of a direct branch-utils call: [owner, linearId, title, branchName]
  output,       \* value returned by a direct branch-utils call (<<>> = '' or null)
  hasUnpushed,  \* createParentIssue: unpushedCheck.hasUnpushed ("unknown" before the check)
  branchRead,   \* commitFirst: "pending" | "ok" | "failed" (git rev-parse threw)
  cfBranchName, \* commitFirst: local branchName
  cfPrefix,     \* commitFirst: local prefix (<<>> = null)
  cfLinearId,   \* commitFirst: local linearId (<<>> = null)
  prompts,      \* commitFirst: number of 'Select commit type' prompts shown
  cfTitle,      \* commitFirst: local title (<<>> = null)
  cfIssueNumber,\* commitFirst: local githubIssueNumber ("" = null)
  commits,      \* git commit commands run: [message, created]
  gitBranches,  \* number of 'git switch -c' commands run
  subLinks,     \* number of addSubIssue mutations sent
  subIssueLinked, \* the addSubIssue mutation completed without error
  csiStatus,    \* createSubIssue: "idle" | "running" | "returned" | "threw"
  envUtils,     \* build: which version of loadEnvFile the binary was compiled with
  shellKey,     \* environment: LINEAR_API_KEY was in process.env when the process started
  envFiles,     \* environment: the .env file of each directory from the root (0) to the cwd
  homeEnv,      \* environment: the .env file of the home directory
  currentDir,   \* loadEnvFile: local currentDir, as its depth below the root
  linearIssues, \* the issues of the Linear workspace, in the order client.issues() lists them
  githubUrl,    \* argument of a direct findIssueByGitHubUrl call
  linearApiKey, \* linear-client.ts:4, the module's 'let linearApiKey'
  wrappers,     \* the LinearClientWrapper instances: the apiKey each was constructed with
  rawRequests,  \* requests sent to api.linear.app: [instance, via, authorization]
  patchRound,   \* applications of the metadata patch begun so far (0..2)
  patchFirst,   \* Linear's state after the first application of the patch
  envLoad,      \* loadEnvFile: "idle" | "running" | "returned" | "exited"
  loadedFiles,  \* the .env files dotenv has read: [at: "dir" | "home", depth]
  prEnv,        \* environment of gh-pr-safe: [baseRemote, mainAhead, branchRemote, branchAhead]
  prLog,        \* gh-pr-safe: the warnings shown, each [about, listed, reply]
  prCreated     \* gh-pr-safe: number of 'gh pr create' commands run

pollVars == <<options, attempt, lookups, retries, sleeps, slept, issueId, pollStatus>>
envPollVars == <<foundAt, throwAt>>
cpVars == <<apiKeySet, details, githubProject, ghIssues, projectDates, linearProjectId, branchCreated>>
envLinearVars == <<issueTeam>>
linearVars == <<labelStore, issue, writes, faults>>
silVars == <<labelIdx, labelIds, silResult, silStatus, foclLog>>
patchVars == <<patchRound, patchFirst>>
lcVars == <<linearIssues, githubUrl, linearApiKey, wrappers, rawRequests>>
envProjVars == <<projPages, itemPage, itemFrom, failAttempts, failPage>>
gpVars == <<maxRetries, gpAttempt, cursor, hasNextPage, allItems, gpQueries, gpOutcomes,
            gpWaits, gpStatus, itemId>>
spdfVars == <<targetDate, startDate, ghProjectId, spdfSuccess, dateLog, spdfStatus, spdfResult>>
buVars == <<branchUtils, args, output>>
cfLocals == <<branchRead, cfBranchName, cfPrefix, cfLinearId, prompts, cfTitle, cfIssueNumber>>
cfVars == <<hasUnpushed, cfLocals, commits>>
csiVars == <<subLinks, subIssueLinked, csiStatus>>
envStartVars == <<envUtils, shellKey, envFiles, homeEnv>>
startupVars == <<envStartVars, currentDir, envLoad, loadedFiles>>
prVars == <<prEnv, prLog, prCreated>>
extVars == <<envProjVars, lcVars, patchVars, prVars, startupVars, gpVars, spdfVars, buVars, cfVars, gitBranches, csiVars>>
vars == <<cmd, pc, exitCode, pollVars, envPollVars, cpVars, envLinearVars, linearVars,
          silVars, calls, extVars>>

(***************************************************************************)
(* Linear side of the sync: what the n-th findIssueByGitHubUrl call does   *)
(***************************************************************************)
\* client.issues(...) rejects on call n
LookupThrows(n) == throwAt > 0 /\ n = throwAt

\* no direct findIssueByGitHubUrl call is made
NoWorkspace == linearIssues = <<>> /\ githubUrl = <<>>

\* findIssueByGitHubUrl: issues.nodes[0]?.id || null on call n
findIssueByGitHubUrl(n) ==
  IF foundAt > 0 /\ n >= foundAt THEN LinearIssueId ELSE ""

(***************************************************************************)
(* waitForIssueByGitHubUrl                                                 *)
(***************************************************************************)
\* const delayMs = options.delayMs ?? 5000
delayMs == IF options.delayMsGiven THEN options.delayMs ELSE DefaultDelayMs

\* variant: gives up one attempt early
AttemptsExhausted_OneEarly == options.maxAttemptsGiven /\ attempt + 1 >= options.maxAttempts

\* variant: allows one attempt too many
AttemptsExhausted_OneLate == options.maxAttemptsGiven /\ attempt > options.maxAttempts

\* variant: tests for equality, so a maxAttempts below 1 is never reached
AttemptsExhausted_Equal == options.maxAttemptsGiven /\ attempt = options.maxAttempts

\* maxAttempts !== undefined && attempt >= maxAttempts
AttemptsExhausted == options.maxAttemptsGiven /\ attempt >= options.maxAttempts

\* variant: falls back to the default delay when delayMs is not positive
SleepMs_OrDefault == IF delayMs > 0 THEN delayMs ELSE DefaultDelayMs

\* setTimeout(resolve, delayMs) when delayMs > 0, else setTimeout(resolve, 0)
SleepMs == IF delayMs > 0 THEN delayMs ELSE 0

OptionValues ==
  [maxAttemptsGiven : {TRUE}, maxAttempts : (-1 .. MaxAttemptsBound) \cup {linearSyncMaxAttempts},
   delayMsGiven : {TRUE}, delayMs : {-1, 0, linearSyncDelayMs}, onRetry : BOOLEAN]
  \cup
  [maxAttemptsGiven : {FALSE}, maxAttempts : {0},
   delayMsGiven : {TRUE}, delayMs : {0, linearSyncDelayMs}, onRetry : BOOLEAN]
  \cup
  [maxAttemptsGiven : {TRUE}, maxAttempts : {1, 2},
   delayMsGiven : {FALSE}, delayMs : {0}, onRetry : BOOLEAN]

FoundAtValues == (0 .. MaxFoundAt) \cup {linearSyncMaxAttempts, linearSyncMaxAttempts + 1}
ThrowAtValues == 0 .. MaxThrowAt

\* entry of the method: for (let attempt = 1; ; attempt++)
PollEnter(opts) ==
  /\ options' = opts
  /\ attempt' = 1
  /\ lookups' = 0
  /\ retries' = 0
  /\ sleeps' = 0
  /\ slept' = 0
  /\ issueId' = ""
  /\ pollStatus' = "running"

\* variant: a lookup error is caught and counted as "not found yet"
PollLookup_CatchAsNotFound ==
  /\ pc = "pollLookup"
  /\ lookups' = Bump(lookups)
  /\ issueId' = IF LookupThrows(lookups') THEN "" ELSE findIssueByGitHubUrl(lookups')
  /\ pc' = "pollCheck"
  /\ UNCHANGED <<cmd, extVars, exitCode, options, attempt, retries, sleeps, slept, pollStatus,
                 envPollVars, cpVars, envLinearVars, linearVars, silVars, calls>>

\* variant: the timer is not awaited, the next lookup can start while it is pending
PollLookup_DuringSleep ==
  /\ pc \in {"pollLookup", "pollSleep"}
  /\ lookups' = Bump(lookups)
  /\ IF LookupThrows(lookups')
       THEN /\ pollStatus' = "threw"
            /\ issueId' = ""
            /\ pc' = "threw"
       ELSE /\ issueId' = findIssueByGitHubUrl(lookups')
            /\ pollStatus' = pollStatus
            /\ pc' = "pollCheck"
  /\ UNCHANGED <<cmd, extVars, exitCode, options, attempt, retries, sleeps, slept, envPollVars,
               cpVars, envLinearVars, linearVars, silVars, calls>>

\* const issueId = await this.findIssueByGitHubUrl(githubUrl)
PollLookup ==
  /\ pc = "pollLookup"
  /\ lookups' = Bump(lookups)
  /\ IF LookupThrows(lookups')
       THEN /\ pollStatus' = "threw"
            /\ issueId' = ""
            /\ pc' = "threw"
       ELSE /\ issueId' = findIssueByGitHubUrl(lookups')
            /\ pollStatus' = pollStatus
            /\ pc' = "pollCheck"
  /\ UNCHANGED <<cmd, extVars, exitCode, options, attempt, retries, sleeps, slept, envPollVars,
               cpVars, envLinearVars, linearVars, silVars, calls>>

\* if (issueId) return issueId;
\* if (maxAttempts !== undefined && attempt >= maxAttempts) return null;
PollCheck ==
  /\ pc = "pollCheck"
  /\ IF issueId # "" \/ AttemptsExhausted
       THEN /\ pollStatus' = "returned"
            /\ pc' = IF cmd = "createParentIssue" THEN "afterPoll" ELSE "done"
       ELSE /\ pollStatus' = pollStatus
            /\ pc' = "pollOnRetry"
  /\ UNCHANGED <<cmd, extVars, exitCode, options, attempt, lookups, retries, sleeps, slept, issueId, envPollVars,
               cpVars, envLinearVars, linearVars, silVars, calls>>

\* options.onRetry?.(attempt, maxAttempts ?? Number.POSITIVE_INFINITY, delayMs)
PollOnRetry ==
  /\ pc = "pollOnRetry"
  /\ retries' = IF options.onRetry THEN Bump(retries) ELSE retries
  /\ pc' = "pollSleep"
  /\ UNCHANGED <<cmd, extVars, exitCode, options, attempt, lookups, sleeps, slept, issueId, pollStatus, envPollVars,
               cpVars, envLinearVars, linearVars, silVars, calls>>

\* await new Promise(resolve => setTimeout(resolve, ...)); attempt++
PollSleep ==
  /\ pc = "pollSleep"
  /\ sleeps' = Bump(sleeps)
  /\ slept' = IF sleeps < CounterCap THEN slept + SleepMs ELSE slept
  /\ attempt' = Bump(attempt)
  /\ pc' = "pollLookup"
  /\ UNCHANGED <<cmd, extVars, exitCode, options, lookups, retries, issueId, pollStatus, envPollVars,
               cpVars, envLinearVars, linearVars, silVars, calls>>

\* a direct call of waitForIssueByGitHubUrl(githubUrl, options)
WaitCall ==
  /\ pc = "start"
  /\ cmd = "waitForIssueByGitHubUrl"
  /\ \E opts \in OptionValues : PollEnter(opts)
  /\ pc' = "pollLookup"
  /\ UNCHANGED <<cmd, extVars, exitCode, envPollVars, cpVars, envLinearVars, linearVars, silVars, calls>>

(***************************************************************************)
(* Linear data                                                             *)
(***************************************************************************)
Teams == {"T1", "T2"}

\* the label names offered by promptIssueDetails in this model
LabelNames == {"bug", "Fix", "docs"}

\* String.prototype.toLowerCase on the names of the model
toLowerCase(str) ==
  CASE str = "Bug" -> "bug"
    [] str = "BUG" -> "bug"
    [] str = "Fix" -> "fix"
    [] str = "FIX" -> "fix"
    [] OTHER -> str

Label(i, n) == [id |-> i, name |-> n]

\* label stores the run may start from (IDs are 1..n over both teams)
InitialLabelStores ==
  { [t \in Teams |-> IF t = "T1" THEN <<Label(1, "BUG"), Label(2, "bug")>> ELSE <<>>],
    [t \in Teams |-> IF t = "T1" THEN <<Label(1, "FIX")>>
                                 ELSE <<Label(2, "Bug"), Label(3, "docs")>>] }

\* the ID Linear gives to the next created label
NextLabelId == Len(labelStore["T1"]) + Len(labelStore["T2"]) + 1

\* sequences of at most n distinct names (a checkbox prompt returns no name twice)
RECURSIVE SeqsUpTo(_, _)
SeqsUpTo(S, n) ==
  IF n = 0 THEN {<<>>}
  ELSE LET shorter == SeqsUpTo(S, n - 1)
       IN shorter \cup
          { Append(q, x) : q \in {r \in shorter : Len(r) = n - 1},
                           x \in S }

NoRepeat(q) == \A i, j \in 1..Len(q) : i # j => q[i] # q[j]

LabelSelections == { q \in SeqsUpTo(LabelNames, MaxLabels) : NoRepeat(q) }

\* JSON.stringify(new Date(dueDate)) for a YYYY-MM-DD string: UTC midnight
DateToJSON(d) == <<d, "T00:00:00.000Z">>

\* the calendar date Linear stores for a due date sent as a timestamp
TimelessDate(j) == j[1]

NoInput == [dueDate |-> <<>>, projectId |-> "", labelIds |-> <<>>,
            hasDueDate |-> FALSE, hasProjectId |-> FALSE, hasLabelIds |-> FALSE]

(***************************************************************************)
(* LinearClientWrapper.getLabels / findOrCreateLabel                       *)
(***************************************************************************)
\* getLabels(teamId): the labels of that team
getLabels(teamId) == labelStore[teamId]

\* variant: compares the names as they are
LabelMatches_CaseSensitive(l, labelName) == l.name = labelName

\* labels.find(l => l.name.toLowerCase() === labelName.toLowerCase())
LabelMatches(l, labelName) == toLowerCase(l.name) = toLowerCase(labelName)

\* index of the first matching label of the list, 0 if none
RECURSIVE FindFrom(_, _, _)
FindFrom(labels, labelName, i) ==
  IF i > Len(labels) THEN 0
  ELSE IF LabelMatches(labels[i], labelName) THEN i
  ELSE FindFrom(labels, labelName, i + 1)

existingLabel(labels, labelName) == FindFrom(labels, labelName, 1)

CreateWrite(teamId, labelName, ok) ==
  [op |-> "issueLabelCreate", teamId |-> teamId, name |-> labelName,
   input |-> NoInput, applied |-> ok]

\* findOrCreateLabel(teamId, labelName) with the environment's answers:
\*   list  in {"ok", "throws"}            getLabels
\*   reply in {"ok", "errors", "throws"}  the issueLabelCreate request
\* yields [ret, store, writes, faults]
findOrCreateLabel(teamId, labelName, list, reply) ==
  IF list = "throws"
    THEN [ret |-> 0, store |-> labelStore, writes |-> writes,
          faults |-> faults \cup {"labelList"}]
  ELSE LET labels == getLabels(teamId)
           k == existingLabel(labels, labelName)
       IN IF k > 0
            THEN [ret |-> labels[k].id, store |-> labelStore, writes |-> writes,
                  faults |-> faults]
          ELSE IF reply = "ok"
            THEN [ret |-> NextLabelId,
                  store |-> [labelStore EXCEPT
                               ![teamId] = Append(@, Label(NextLabelId, labelName))],
                  writes |-> Append(writes, CreateWrite(teamId, labelName, TRUE)),
                  faults |-> faults]
          ELSE [ret |-> 0, store |-> labelStore,
                writes |-> Append(writes, CreateWrite(teamId, labelName, FALSE)),
                faults |-> faults \cup {"labelCreate"}]

(***************************************************************************)
(* LinearClientWrapper.updateIssueMetadata                                 *)
(***************************************************************************)
\* variant: every field is part of the update input, given or not
updateInput_Dense(dueDate, projectId, lblIds) ==
  [dueDate |-> IF dueDate # "" THEN DateToJSON(dueDate) ELSE <<"", "">>,
   hasDueDate |-> TRUE,
   projectId |-> projectId,
   hasProjectId |-> TRUE,
   labelIds |-> lblIds,
   hasLabelIds |-> TRUE]

\* const updateInput = {}; if (dueDate) ...; if (projectId) ...;
\* if (labelIds && labelIds.length > 0) ...
updateInput(dueDate, projectId, lblIds) ==
  [dueDate |-> IF dueDate # "" THEN DateToJSON(dueDate) ELSE <<>>,
   hasDueDate |-> dueDate # "",
   projectId |-> projectId,
   hasProjectId |-> projectId # "",
   labelIds |-> lblIds,
   hasLabelIds |-> Len(lblIds) > 0]

\* variant: the labels of the input are added to the labels of the issue
ApplyUpdate_AddLabels(iss, input) ==
  [dueDate |-> IF input.hasDueDate THEN TimelessDate(input.dueDate) ELSE iss.dueDate,
   projectId |-> IF input.hasProjectId THEN input.projectId ELSE iss.projectId,
   labelIds |-> IF input.hasLabelIds THEN iss.labelIds \o input.labelIds ELSE iss.labelIds]

\* Linear's issueUpdate: an assignment of the fields present in the input
ApplyUpdate(iss, input) ==
  [dueDate |-> IF input.hasDueDate THEN TimelessDate(input.dueDate) ELSE iss.dueDate,
   projectId |-> IF input.hasProjectId THEN input.projectId ELSE iss.projectId,
   labelIds |-> IF input.hasLabelIds THEN input.labelIds ELSE iss.labelIds]

\* Linear projects the run may resolve; Linear refuses to put the issue into
\* the second one (for example a project of another team)
LinearProjects == {"lin-project-1", "lin-project-2"}
RejectedProjects == {"lin-project-2"}

\* Linear rejects the whole mutation when it rejects the project of the input
ServerReply(input, reply) ==
  IF reply = "ok" /\ input.hasProjectId /\ input.projectId \in RejectedProjects
    THEN "projectRejected" ELSE reply

UpdateWrite(input, ok) ==
  [op |-> "issueUpdate", teamId |-> "", name |-> "", input |-> input, applied |-> ok]

\* updateIssueMetadata(issueId, dueDate, projectId, labelIds) with the
\* environment's answers:
\*   fetch in {"ok", "throws"}            client.issue(issueId)
\*   reply in {"ok", "errors", "throws"}  the issueUpdate request
\* yields [success, issue, writes, faults]
updateIssueMetadata(dueDate, projectId, lblIds, fetch, reply) ==
  IF fetch = "throws"
    THEN [success |-> FALSE, issue |-> issue, writes |-> writes,
          faults |-> faults \cup {IF lblIds # <<>> THEN "labelUpdate" ELSE "metadataUpdate"}]
  ELSE LET input == updateInput(dueDate, projectId, lblIds)
           r == ServerReply(input, reply)
       IN IF r = "ok"
            THEN [success |-> TRUE, issue |-> ApplyUpdate(issue, input),
                  writes |-> Append(writes, UpdateWrite(input, TRUE)),
                  faults |-> faults]
          ELSE [success |-> FALSE, issue |-> issue,
                writes |-> Append(writes, UpdateWrite(input, FALSE)),
                faults |-> faults \cup
                  {IF r = "projectRejected" THEN "projectRejected"
                   ELSE IF lblIds # <<>> THEN "labelUpdate" ELSE "metadataUpdate"}]

Call(dueDate, projectId, lblIds, from) ==
  [dueDate |-> dueDate, projectId |-> projectId, labelIds |-> lblIds, from |-> from]

(***************************************************************************)
(* LinearClientWrapper.setIssueLabels(issueId, labelNames)                 *)
(***************************************************************************)
\* const teamId = await this.getIssueTeamId(issueId); if (!teamId) return []
SetIssueLabelsTeam ==
  /\ pc = "silTeam"
  /\ \E team \in {"ok", "fails"} :
       IF team = "fails"
         THEN /\ silResult' = <<>>
              /\ silStatus' = "returned"
              /\ faults' = faults \cup {"teamLookup"}
              /\ pc' = "updateMetadata"
         ELSE /\ UNCHANGED <<silResult, silStatus, faults>>
              /\ pc' = "silLoop"
  /\ UNCHANGED <<cmd, extVars, exitCode, pollVars, envPollVars, cpVars, envLinearVars,
                 labelStore, issue, writes, labelIdx, labelIds, foclLog, calls>>

\* variant: assigns the labels collected so far after every resolved name
SetIssueLabelsResolve_WritePerLabel ==
  /\ pc = "silLoop"
  /\ labelIdx <= Len(details.labels)
  /\ \E list \in {"ok", "throws"}, reply \in {"ok", "errors", "throws"} :
       LET labelName == details.labels[labelIdx]
           r == findOrCreateLabel(issueTeam, labelName, list, reply)
           ids == IF r.ret # 0 THEN Append(labelIds, r.ret) ELSE labelIds
           input == updateInput("", "", ids)
       IN /\ labelStore' = r.store
          /\ writes' = IF r.ret # 0 THEN Append(r.writes, UpdateWrite(input, TRUE))
                                    ELSE r.writes
          /\ issue' = IF r.ret # 0 THEN ApplyUpdate(issue, input) ELSE issue
          /\ faults' = r.faults
          /\ labelIds' = ids
          /\ foclLog' = Append(foclLog, [teamId |-> issueTeam, name |-> labelName,
                                         listed |-> list = "ok", ret |-> r.ret])
  /\ labelIdx' = labelIdx + 1
  /\ UNCHANGED <<cmd, extVars, pc, exitCode, pollVars, envPollVars, cpVars, envLinearVars,
                 silResult, silStatus, calls>>

\* for (const labelName of labelNames) {
\*   const labelId = await this.findOrCreateLabel(teamId, labelName);
\*   if (labelId) labelIds.push(labelId); }
SetIssueLabelsResolve ==
  /\ pc = "silLoop"
  /\ labelIdx <= Len(details.labels)
  /\ \E list \in {"ok", "throws"}, reply \in {"ok", "errors", "throws"} :
       LET labelName == details.labels[labelIdx]
           r == findOrCreateLabel(issueTeam, labelName, list, reply)
       IN /\ labelStore' = r.store
          /\ writes' = r.writes
          /\ faults' = r.faults
          /\ labelIds' = IF r.ret # 0 THEN Append(labelIds, r.ret) ELSE labelIds
          /\ foclLog' = Append(foclLog, [teamId |-> issueTeam, name |-> labelName,
                                         listed |-> list = "ok", ret |-> r.ret])
  /\ labelIdx' = labelIdx + 1
  /\ UNCHANGED <<cmd, extVars, pc, exitCode, pollVars, envPollVars, cpVars, envLinearVars,
                 issue, silResult, silStatus, calls>>

\* variant: a failed label step is rethrown to the caller
SetIssueLabelsUpdate_Rethrow ==
  /\ pc = "silLoop"
  /\ labelIdx > Len(details.labels)
  /\ IF Len(labelIds) > 0
       THEN \E fetch \in {"ok", "throws"}, reply \in {"ok", "errors", "throws"} :
              LET r == updateIssueMetadata("", "", labelIds, fetch, reply)
              IN /\ issue' = r.issue
                 /\ writes' = r.writes
                 /\ faults' = r.faults
                 /\ calls' = Append(calls, Call("", "", labelIds, "setIssueLabels"))
                 /\ silResult' = IF r.success THEN labelIds ELSE <<>>
       ELSE /\ silResult' = <<>>
            /\ UNCHANGED <<issue, writes, faults, calls>>
  /\ silStatus' = "returned"
  /\ pc' = IF silResult' = <<>> THEN "threw" ELSE "updateMetadata"
  /\ UNCHANGED <<cmd, extVars, exitCode, pollVars, envPollVars, cpVars, envLinearVars,
                 labelStore, labelIdx, labelIds, foclLog>>

\* variant: the label write also carries the due date and the project
SetIssueLabelsUpdate_AllFields ==
  /\ pc = "silLoop"
  /\ labelIdx > Len(details.labels)
  /\ IF Len(labelIds) > 0
       THEN \E fetch \in {"ok", "throws"}, reply \in {"ok", "errors", "throws"} :
              LET r == updateIssueMetadata(details.dueDate, linearProjectId, labelIds,
                                           fetch, reply)
              IN /\ issue' = r.issue
                 /\ writes' = r.writes
                 /\ faults' = r.faults
                 /\ calls' = Append(calls, Call(details.dueDate, linearProjectId, labelIds,
                                                "setIssueLabels"))
                 /\ silResult' = IF r.success THEN labelIds ELSE <<>>
       ELSE /\ silResult' = <<>>
            /\ UNCHANGED <<issue, writes, faults, calls>>
  /\ silStatus' = "returned"
  /\ pc' = "updateMetadata"
  /\ UNCHANGED <<cmd, extVars, exitCode, pollVars, envPollVars, cpVars, envLinearVars,
                 labelStore, labelIdx, labelIds, foclLog>>

\* if (labelIds.length > 0) {
\*   const success = await this.updateIssueMetadata(issueId, undefined, undefined, labelIds);
\*   if (success) return labelIds; }
\* return [];
SetIssueLabelsUpdate ==
  /\ pc = "silLoop"
  /\ labelIdx > Len(details.labels)
  /\ IF Len(labelIds) > 0
       THEN \E fetch \in {"ok", "throws"}, reply \in {"ok", "errors", "throws"} :
              LET r == updateIssueMetadata("", "", labelIds, fetch, reply)
              IN /\ issue' = r.issue
                 /\ writes' = r.writes
                 /\ faults' = r.faults
                 /\ calls' = Append(calls, Call("", "", labelIds, "setIssueLabels"))
                 /\ silResult' = IF r.success THEN labelIds ELSE <<>>
       ELSE /\ silResult' = <<>>
            /\ UNCHANGED <<issue, writes, faults, calls>>
  /\ silStatus' = "returned"
  /\ pc' = "updateMetadata"
  /\ UNCHANGED <<cmd, extVars, exitCode, pollVars, envPollVars, cpVars, envLinearVars,
                 labelStore, labelIdx, labelIds, foclLog>>

\* process.exit(code)
process_exit(code) == pc' = "exited" /\ exitCode' = code

\* process.exit(1)
Exit1 == process_exit(1)

(***************************************************************************)
(* Strings as sequences of characters                                      *)
(***************************************************************************)
\* longest exhaustively enumerated branch name and title
MaxNameLen == 3
MaxTitleLen == 3

LowerCaseLetters ==
  <<"a", "b", "c", "d", "e", "f", "g", "h", "i", "j", "k", "l", "m",
    "n", "o", "p", "q", "r", "s", "t", "u", "v", "w", "x", "y", "z">>
UpperCaseLetters ==
  <<"A", "B", "C", "D", "E", "F", "G", "H", "I", "J", "K", "L", "M",
    "N", "O", "P", "Q", "R", "S", "T", "U", "V", "W", "X", "Y", "Z">>
Range(q) == {q[i] : i \in 1 .. Len(q)}
Lower == Range(LowerCaseLetters)
Upper == Range(UpperCaseLetters)
Digit == {"0", "1", "2", "3", "4", "5", "6", "7", "8", "9"}
\* characters matched by \s and removed by trim()
Whitespace == {" ", "\t"}

\* String.prototype.toLowerCase, one character
LowerChar(c) ==
  IF c \in Upper
    THEN LowerCaseLetters[CHOOSE i \in 1 .. Len(UpperCaseLetters) : UpperCaseLetters[i] = c]
    ELSE c

\* str.toLowerCase()
ToLowerCase(s) == [i \in 1 .. Len(s) |-> LowerChar(s[i])]

\* str.trim().length === 0
IsBlank(s) == \A i \in 1 .. Len(s) : s[i] \in Whitespace

\* str.replace(/C+/g, r): every maximal run of characters of class C becomes r
RECURSIVE ReplaceRuns(_, _, _)
ReplaceRuns(s, C, r) ==
  IF s = <<>> THEN <<>>
  ELSE IF Head(s) \in C
    THEN IF Len(s) > 1 /\ s[2] \in C
           THEN ReplaceRuns(Tail(s), C, r)
           ELSE r \o ReplaceRuns(Tail(s), C, r)
    ELSE <<Head(s)>> \o ReplaceRuns(Tail(s), C, r)

\* str.replace(/^C+/, '')
RECURSIVE TrimLeft(_, _)
TrimLeft(s, C) == IF s # <<>> /\ Head(s) \in C THEN TrimLeft(Tail(s), C) ELSE s

\* str.replace(/C+$/, '')
RECURSIVE TrimRight(_, _)
TrimRight(s, C) ==
  IF s # <<>> /\ s[Len(s)] \in C THEN TrimRight(SubSeq(s, 1, Len(s) - 1), C) ELSE s

\* str.substring(0, n)
Substring0(s, n) == SubSeq(s, 1, IF Len(s) < n THEN Len(s) ELSE n)

\* all strings over alphabet A of length at most n
RECURSIVE StringsUpTo(_, _)
StringsUpTo(A, n) ==
  IF n = 0 THEN {<<>>}
  ELSE LET shorter == StringsUpTo(A, n - 1)
       IN shorter \cup {Append(s, c) : s \in {t \in shorter : Len(t) = n - 1}, c \in A}

\* n copies of character c
Repeat(c, n) == [i \in 1 .. n |-> c]

(***************************************************************************)
(* branch-utils: sanitizeBranchName                                        *)
(***************************************************************************)
\* if (sanitized.length > 50) sanitized = sanitized.substring(0, 50)
MaxSanitizedLength == 50

\* variant: the cut is made but a hyphen left at the cut is kept
Truncate_KeepHyphen(s) ==
  IF Len(s) > MaxSanitizedLength THEN Substring0(s, MaxSanitizedLength) ELSE s

\* if (sanitized.length > 50) { substring(0, 50); replace(/-+$/, '') }
Truncate(s) ==
  IF Len(s) > MaxSanitizedLength
    THEN TrimRight(Substring0(s, MaxSanitizedLength), {"-"})
    ELSE s

\* the title after lower-casing, hyphenating, filtering, collapsing and trimming
CleanTitle(title) ==
  LET hyphenated == ReplaceRuns(ToLowerCase(title), Whitespace, <<"-">>)
      filtered == SelectSeq(hyphenated, LAMBDA c : c \in Lower \cup Digit \cup {"-"})
      collapsed == ReplaceRuns(filtered, {"-"}, <<"-">>)
  IN TrimRight(TrimLeft(collapsed, {"-"}), {"-"})

sanitizeBranchName(title) ==
  IF title = <<>> \/ IsBlank(title) THEN <<>> ELSE Truncate(CleanTitle(title))

(***************************************************************************)
(* branch-utils: two versions of the module are in the repository          *)
(***************************************************************************)
\* "owner": generateBranchName(owner, ...) and extractBranchPrefix(): string | null
\* "prefix": generateBranchName(prefix, ...) and extractBranchPrefix(): string
BranchUtilsVersions == {"owner", "prefix"}

feat == <<"f", "e", "a", "t">>
fix == <<"f", "i", "x">>
chore == <<"c", "h", "o", "r", "e">>
docs == <<"d", "o", "c", "s">>
refactor == <<"r", "e", "f", "a", "c", "t", "o", "r">>
test == <<"t", "e", "s", "t">>
research == <<"r", "e", "s", "e", "a", "r", "c", "h">>
user == <<"u", "s", "e", "r">>

VALID_BRANCH_PREFIXES == {feat, fix, chore, docs, refactor, test, research}

\* owner.toLowerCase().replace(/[^a-z0-9-]/g, ''), hyphens collapsed and trimmed
sanitizeBranchOwner(owner) ==
  IF owner = <<>> \/ IsBlank(owner) THEN <<>>
  ELSE LET filtered == SelectSeq(ToLowerCase(owner), LAMBDA c : c \in Lower \cup Digit \cup {"-"})
           collapsed == ReplaceRuns(filtered, {"-"}, <<"-">>)
       IN TrimRight(TrimLeft(collapsed, {"-"}), {"-"})

\* const ownerSegment = sanitizedOwner || 'user'   ("owner" version)
\* the first argument as it is                    ("prefix" version)
OwnerSegment(version, owner) ==
  IF version = "owner"
    THEN (IF sanitizeBranchOwner(owner) = <<>> THEN user ELSE sanitizeBranchOwner(owner))
    ELSE owner

\* variant: the hyphen is appended even when the sanitized title is empty
generateBranchName_AlwaysHyphen(version, owner, linearId, title) ==
  OwnerSegment(version, owner) \o <<"/">> \o linearId \o <<"-">> \o sanitizeBranchName(title)

\* `${ownerSegment}/${linearId}` or `${ownerSegment}/${linearId}-${sanitizedTitle}`
generateBranchName(version, owner, linearId, title) ==
  LET sanitizedTitle == sanitizeBranchName(title)
  IN IF sanitizedTitle = <<>>
       THEN OwnerSegment(version, owner) \o <<"/">> \o linearId
       ELSE OwnerSegment(version, owner) \o <<"/">> \o linearId \o <<"-">> \o sanitizedTitle

\* end of the maximal run of characters of class C that starts at i (i - 1 if none)
RECURSIVE RunEnd(_, _, _)
RunEnd(s, C, i) == IF i <= Len(s) /\ s[i] \in C THEN RunEnd(s, C, i + 1) ELSE i - 1

\* end of the match of /[A-Z]+-\d+/ attempted at position i, 0 when it fails there
MatchEnd(s, i) ==
  LET u == RunEnd(s, Upper, i)
  IN IF u >= i /\ u + 1 <= Len(s) /\ s[u + 1] = "-" /\ RunEnd(s, Digit, u + 2) >= u + 2
       THEN RunEnd(s, Digit, u + 2)
       ELSE 0

\* variant: the pattern is only tried at the start of the name
MatchStarts_AnchoredAtStart(s) == {i \in {1} : MatchEnd(s, i) > 0}

\* the positions at which the pattern matches
MatchStarts(s) == {i \in 1 .. Len(s) : MatchEnd(s, i) > 0}

\* branchName.match(/([A-Z]+-\d+)/): the leftmost match, <<>> for null
extractLinearIssueId(branchName) ==
  IF branchName = <<>> \/ IsBlank(branchName) \/ MatchStarts(branchName) = {}
    THEN <<>>
    ELSE LET i == CHOOSE k \in MatchStarts(branchName) : \A m \in MatchStarts(branchName) : k <= m
         IN SubSeq(branchName, i, MatchEnd(branchName, i))

\* branchName.split('/')[0]
FirstSegment(s) == SubSeq(s, 1, RunEnd(s, Range(s) \ {"/"}, 1))

\* variant: an invalid prefix is returned unchecked
extractBranchPrefix_Unchecked(version, branchName) ==
  IF branchName = <<>> \/ IsBlank(branchName) THEN <<>>
  ELSE ToLowerCase(FirstSegment(branchName))

\* the "owner" version returns null (<<>>) where the "prefix" version returns 'feat'
extractBranchPrefix(version, branchName) ==
  LET none == IF version = "owner" THEN <<>> ELSE feat
  IN IF branchName = <<>> \/ IsBlank(branchName) THEN none
     ELSE IF FirstSegment(branchName) = <<>> THEN none
     ELSE IF ToLowerCase(FirstSegment(branchName)) \in VALID_BRANCH_PREFIXES
       THEN ToLowerCase(FirstSegment(branchName))
       ELSE none

(***************************************************************************)
(* GitHub project items: what a page query of attempt a returns            *)
(***************************************************************************)
\* largest maxRetries and longest item list explored
MaxRetriesBound == 3
MaxPages == 3

\* getProjectItemId(projectId, issueId, maxRetries = 3)
DefaultMaxRetries == 3

\* const waitTime = attempt * 1000
WaitUnitMs == 1000

\* node ID of the GitHub issue the command created
IssueNodeId == "I_issue"

\* the project item of the issue, once GitHub has added it to the project
IssueItem == [id |-> 2 * itemPage, content |-> IssueNodeId]

\* itemsData.nodes of page p as attempt a sees it
PageNodes(a, p) ==
  {[id |-> 2 * p - 1, content |-> "I_other"]}
  \cup (IF itemFrom > 0 /\ a >= itemFrom /\ p = itemPage THEN {IssueItem} ELSE {})

\* itemsData.pageInfo of page p: the cursor of page p is p
PageInfo(p) == [hasNextPage |-> p < projPages, endCursor |-> p]

\* execSync throws, result.errors is set or result.data.node.items is missing
QueryFails(a, p) == a \in failAttempts /\ p = failPage

(***************************************************************************)
(* getProjectItemId                                                        *)
(***************************************************************************)
\* for (let attempt = 1; ...)
GetProjectItemIdEnter(r) ==
  /\ maxRetries' = r
  /\ gpAttempt' = 1
  /\ cursor' = 0
  /\ hasNextPage' = TRUE
  /\ allItems' = {}
  /\ gpQueries' = <<>>
  /\ gpOutcomes' = <<>>
  /\ gpWaits' = <<>>
  /\ gpStatus' = "running"
  /\ itemId' = 0

\* return item.id / return null
GetProjectItemIdReturn(v) ==
  /\ gpStatus' = "returned"
  /\ itemId' = v
  /\ pc' = IF cmd = "getProjectItemId" THEN "done" ELSE "spdfItem"

\* attempt <= maxRetries ? (cursor = null, hasNextPage = true, allItems = []) : return null
GPAttempt ==
  /\ pc = "gpAttempt"
  /\ IF gpAttempt <= maxRetries
       THEN /\ cursor' = 0
            /\ hasNextPage' = TRUE
            /\ allItems' = {}
            /\ pc' = "gpQuery"
            /\ UNCHANGED <<gpStatus, itemId>>
       ELSE /\ GetProjectItemIdReturn(0)
            /\ UNCHANGED <<cursor, hasNextPage, allItems>>
  /\ UNCHANGED <<cmd, exitCode, pollVars, envPollVars, cpVars, envLinearVars, linearVars,
                 silVars, calls, buVars, cfVars, gitBranches, csiVars,
                 envProjVars, lcVars, patchVars, prVars, startupVars, maxRetries, gpAttempt, gpQueries, gpOutcomes,
                 gpWaits, spdfVars>>

\* variant: only the first page is read
NextHasNextPage_FirstPageOnly(page) == FALSE

\* hasNextPage = itemsData.pageInfo?.hasNextPage || false
NextHasNextPage(page) == PageInfo(page).hasNextPage

\* while (hasNextPage) { query items(first: 100[, after: cursor]); allItems.concat(nodes);
\*   hasNextPage = pageInfo.hasNextPage || false; cursor = pageInfo.endCursor || null }
GPQuery ==
  /\ pc = "gpQuery"
  /\ LET page == cursor + 1
     IN /\ gpQueries' = Append(gpQueries, <<gpAttempt, page>>)
        /\ IF QueryFails(gpAttempt, page)
             THEN /\ pc' = "gpCatch"
                  /\ UNCHANGED <<cursor, hasNextPage, allItems>>
             ELSE /\ allItems' = allItems \cup PageNodes(gpAttempt, page)
                  /\ hasNextPage' = NextHasNextPage(page)
                  /\ cursor' = PageInfo(page).endCursor
                  /\ pc' = IF hasNextPage' THEN "gpQuery" ELSE "gpFind"
  /\ UNCHANGED <<cmd, exitCode, pollVars, envPollVars, cpVars, envLinearVars, linearVars,
                 silVars, calls, buVars, cfVars, gitBranches, csiVars,
                 envProjVars, lcVars, patchVars, prVars, startupVars, maxRetries, gpAttempt, gpOutcomes, gpWaits,
                 gpStatus, itemId, spdfVars>>

\* allItems.find(i => i.content?.id === issueId)
FindItem(items) == {i \in items : i.content = IssueNodeId}

\* if (item) return item.id;
\* if (attempt < maxRetries) wait, else log "not found after maxRetries attempts"
GPFind ==
  /\ pc = "gpFind"
  /\ IF FindItem(allItems) # {}
       THEN /\ gpOutcomes' = Append(gpOutcomes, "found")
            /\ GetProjectItemIdReturn((CHOOSE i \in FindItem(allItems) : TRUE).id)
            /\ UNCHANGED gpAttempt
       ELSE /\ gpOutcomes' = Append(gpOutcomes, "missing")
            /\ IF gpAttempt < maxRetries
                 THEN pc' = "gpWait" /\ UNCHANGED gpAttempt
                 ELSE pc' = "gpAttempt" /\ gpAttempt' = gpAttempt + 1
            /\ UNCHANGED <<gpStatus, itemId>>
  /\ UNCHANGED <<cmd, exitCode, pollVars, envPollVars, cpVars, envLinearVars, linearVars,
                 silVars, calls, buVars, cfVars, gitBranches, csiVars,
                 envProjVars, lcVars, patchVars, prVars, startupVars, maxRetries, cursor, hasNextPage, allItems,
                 gpQueries, gpWaits, spdfVars>>

\* catch (error) { ...; if (attempt < maxRetries) wait }
GPCatch ==
  /\ pc = "gpCatch"
  /\ gpOutcomes' = Append(gpOutcomes, "threw")
  /\ IF gpAttempt < maxRetries
       THEN pc' = "gpWait" /\ UNCHANGED gpAttempt
       ELSE pc' = "gpAttempt" /\ gpAttempt' = gpAttempt + 1
  /\ UNCHANGED <<cmd, exitCode, pollVars, envPollVars, cpVars, envLinearVars, linearVars,
                 silVars, calls, buVars, cfVars, gitBranches, csiVars,
                 envProjVars, lcVars, patchVars, prVars, startupVars, maxRetries, cursor, hasNextPage, allItems,
                 gpQueries, gpWaits, gpStatus, itemId, spdfVars>>

\* variant: the same wait before every retry
waitTime_Constant == WaitUnitMs

\* const waitTime = attempt * 1000
waitTime == gpAttempt * WaitUnitMs

\* await new Promise(resolve => setTimeout(resolve, waitTime)); attempt++
GPWait ==
  /\ pc = "gpWait"
  /\ gpWaits' = Append(gpWaits, waitTime)
  /\ gpAttempt' = gpAttempt + 1
  /\ pc' = "gpAttempt"
  /\ UNCHANGED <<cmd, exitCode, pollVars, envPollVars, cpVars, envLinearVars, linearVars,
                 silVars, calls, buVars, cfVars, gitBranches, csiVars,
                 envProjVars, lcVars, patchVars, prVars, startupVars, maxRetries, cursor, hasNextPage, allItems,
                 gpQueries, gpOutcomes, gpStatus, itemId, spdfVars>>

\* a direct call of getProjectItemId(projectId, issueId[, maxRetries])
GetProjectItemIdCall ==
  /\ pc = "start"
  /\ cmd = "getProjectItemId"
  /\ \E r \in (0 .. MaxRetriesBound) \cup {DefaultMaxRetries} : GetProjectItemIdEnter(r)
  /\ pc' = "gpAttempt"
  /\ UNCHANGED <<cmd, exitCode, pollVars, envPollVars, cpVars, envLinearVars, linearVars,
                 silVars, calls, buVars, cfVars, gitBranches, csiVars,
                 envProjVars, lcVars, patchVars, prVars, startupVars, spdfVars>>

(***************************************************************************)
(* setProjectDateFields                                                    *)
(***************************************************************************)
ProjectNodeId == "PVT_project"

DateFields == {"Target", "Start"}

\* entry of setProjectDateFields(repo, projectName, issueId, targetDate?, startDate?)
SetProjectDateFieldsEnter(target, start) ==
  /\ targetDate' = target
  /\ startDate' = start
  /\ ghProjectId' = ""
  /\ spdfSuccess' = TRUE
  /\ dateLog' = <<>>
  /\ spdfStatus' = "running"
  /\ spdfResult' = FALSE

\* return false / return success
SetProjectDateFieldsReturn(v) ==
  /\ spdfStatus' = "returned"
  /\ spdfResult' = v
  /\ pc' = "spdfReturned"

\* const projectId = await this.getProjectNodeId(repo, projectName);
\* if (!projectId) return false;
\* const itemId = await this.getProjectItemId(projectId, issueId);
SPDFProject ==
  /\ pc = "spdfProject"
  /\ \E found \in {"", ProjectNodeId} :
       /\ ghProjectId' = found
       /\ IF found = ""
            THEN /\ SetProjectDateFieldsReturn(FALSE)
                 /\ UNCHANGED gpVars
            ELSE /\ GetProjectItemIdEnter(DefaultMaxRetries)
                 /\ pc' = "gpAttempt"
                 /\ UNCHANGED <<spdfStatus, spdfResult>>
  /\ UNCHANGED <<cmd, exitCode, pollVars, envPollVars, cpVars, envLinearVars, linearVars,
                 silVars, calls, buVars, cfVars, gitBranches, csiVars,
                 envProjVars, lcVars, patchVars, prVars, startupVars, targetDate, startDate, spdfSuccess, dateLog>>

\* if (!itemId) return false;
\* let success = true;
SPDFItem ==
  /\ pc = "spdfItem"
  /\ IF itemId = 0
       THEN SetProjectDateFieldsReturn(FALSE)
       ELSE pc' = "spdfTarget" /\ UNCHANGED <<spdfStatus, spdfResult>>
  /\ spdfSuccess' = TRUE
  /\ UNCHANGED <<cmd, exitCode, pollVars, envPollVars, cpVars, envLinearVars, linearVars,
                 silVars, calls, buVars, cfVars, gitBranches, csiVars,
                 envProjVars, lcVars, patchVars, prVars, startupVars, gpVars, targetDate, startDate, ghProjectId,
                 dateLog>>

\* variant: a failed date mutation is sent a second time
DateFieldBlock_RetryWrite(field, date, fieldFound, writeOk) ==
  IF date = ""
    THEN [log |-> dateLog, success |-> spdfSuccess]
    ELSE IF ~fieldFound
      THEN [log |-> Append(dateLog, [field |-> field, step |-> "fieldMissing", date |-> date]),
            success |-> FALSE]
      ELSE IF writeOk
        THEN [log |-> Append(dateLog, [field |-> field, step |-> "written", date |-> date]),
              success |-> spdfSuccess]
        ELSE [log |-> dateLog \o <<[field |-> field, step |-> "writeFailed", date |-> date],
                                   [field |-> field, step |-> "written", date |-> date]>>,
              success |-> spdfSuccess]

\* one "if (date) { fieldId = getProjectFieldId(...); if (fieldId) { result =
\* setProjectItemDateField(...); if (!result) success = false } else success = false }"
\* block: fieldFound is getProjectFieldId's answer, writeOk the mutation's
DateFieldBlock(field, date, fieldFound, writeOk) ==
  IF date = ""
    THEN [log |-> dateLog, success |-> spdfSuccess]
    ELSE IF ~fieldFound
      THEN [log |-> Append(dateLog, [field |-> field, step |-> "fieldMissing", date |-> date]),
            success |-> FALSE]
      ELSE IF writeOk
        THEN [log |-> Append(dateLog, [field |-> field, step |-> "written", date |-> date]),
              success |-> spdfSuccess]
        ELSE [log |-> Append(dateLog, [field |-> field, step |-> "writeFailed", date |-> date]),
              success |-> FALSE]

\* variant: a failed Target block ends the call and the Start block is skipped
SPDFTarget_StopOnFailure ==
  /\ pc = "spdfTarget"
  /\ \E fieldFound \in BOOLEAN, writeOk \in BOOLEAN :
       LET r == DateFieldBlock("Target", targetDate, fieldFound, writeOk)
       IN /\ dateLog' = r.log
          /\ spdfSuccess' = r.success
          /\ IF r.success
               THEN pc' = "spdfStart" /\ UNCHANGED <<spdfStatus, spdfResult>>
               ELSE SetProjectDateFieldsReturn(FALSE)
  /\ UNCHANGED <<cmd, exitCode, pollVars, envPollVars, cpVars, envLinearVars, linearVars,
                 silVars, calls, buVars, cfVars, gitBranches, csiVars,
                 envProjVars, lcVars, patchVars, prVars, startupVars, gpVars, targetDate, startDate, ghProjectId>>

\* if (targetDate) { ... 'Target' ... }
SPDFTarget ==
  /\ pc = "spdfTarget"
  /\ \E fieldFound \in BOOLEAN, writeOk \in BOOLEAN :
       LET r == DateFieldBlock("Target", targetDate, fieldFound, writeOk)
       IN /\ dateLog' = r.log
          /\ spdfSuccess' = r.success
  /\ pc' = "spdfStart"
  /\ UNCHANGED <<cmd, exitCode, pollVars, envPollVars, cpVars, envLinearVars, linearVars,
                 silVars, calls, buVars, cfVars, gitBranches, csiVars,
                 envProjVars, lcVars, patchVars, prVars, startupVars, gpVars, targetDate, startDate, ghProjectId,
                 spdfStatus, spdfResult>>

\* if (startDate) { ... 'Start' ... }  return success;
SPDFStart ==
  /\ pc = "spdfStart"
  /\ \E fieldFound \in BOOLEAN, writeOk \in BOOLEAN :
       LET r == DateFieldBlock("Start", startDate, fieldFound, writeOk)
       IN /\ dateLog' = r.log
          /\ spdfSuccess' = r.success
          /\ SetProjectDateFieldsReturn(r.success)
  /\ UNCHANGED <<cmd, exitCode, pollVars, envPollVars, cpVars, envLinearVars, linearVars,
                 silVars, calls, buVars, cfVars, gitBranches, csiVars,
                 envProjVars, lcVars, patchVars, prVars, startupVars, gpVars, targetDate, startDate, ghProjectId>>

\* a direct call of setProjectDateFields with any dates of its signature
SetProjectDateFieldsCall ==
  /\ pc = "start"
  /\ cmd = "setProjectDateFields"
  /\ \E target \in {"", "2025-12-31"}, start \in {"", "2025-12-01"} :
       SetProjectDateFieldsEnter(target, start)
  /\ pc' = "spdfProject"
  /\ UNCHANGED <<cmd, exitCode, pollVars, envPollVars, cpVars, envLinearVars, linearVars,
                 silVars, calls, buVars, cfVars, gitBranches, csiVars,
                 envProjVars, lcVars, patchVars, prVars, startupVars, gpVars>>

(***************************************************************************)
(* Inputs of the branch-name functions                                     *)
(***************************************************************************)
LEA123 == <<"L", "E", "A", "-", "1", "2", "3">>

\* every short name over a small alphabet, and names built from segments
ShortNames == StringsUpTo({"A", "a", "1", "-", "/", " "}, MaxNameLen)

NamePrefixes == {<<>>, feat, research, <<"F", "i", "x">>, <<"b", "o", "g", "u", "s">>, user}
NameIds ==
  {LEA123, <<"l", "e", "a", "-", "7">>, <<"A", "B", "-", "C", "D", "-", "7", "5">>,
   <<"L", "E", "A", "-">>, <<"n", "o", "-", "i", "d", "-", "h", "e", "r", "e">>}
NameTails == {<<>>, <<"-", "t", "i", "t", "l", "e">>, <<"-", "X", "-", "9">>}

BranchNames ==
  ShortNames
  \cup {p \o <<"/">> \o i \o t : p \in NamePrefixes, i \in NameIds, t \in NameTails}
  \cup {i \o t : i \in NameIds, t \in NameTails}

\* every short title, and titles around the 50-character limit
ShortTitles == StringsUpTo({"A", "a", "1", "-", " ", "!"}, MaxTitleLen)

LongTitles ==
  {Repeat("a", n) \o t : n \in MaxSanitizedLength - 2 .. MaxSanitizedLength + 1,
                         t \in {<<>>, <<" ", "b", "b">>, <<"!", " ", "-", " ", "B">>}}
  \cup {Repeat("a", MaxSanitizedLength + 10),
        <<"H", "e", "l", "l", "o", " ", " ", " ", "W", "o", "r", "l", "d", "!", "!">>}

Titles == ShortTitles \cup LongTitles

Owners ==
  {<<>>, <<" ">>, <<"!", "-">>, <<"N", "e", "g", "o", "t", "h">>, <<"a", "-", "-", "b">>,
   <<"-", "x", "_", "1">>, feat, <<"F", "e", "a", "t">>, <<"A", "B", "-", "1">>}

\* Linear issue identifiers: team key, hyphen, number
LinearIds == {LEA123, <<"A", "-", "0">>}

NoArguments == [owner |-> <<>>, linearId |-> <<>>, title |-> <<>>, branchName |-> <<>>]

\* the argument lists of the four exported functions
BranchUtilsCalls ==
  {[cmd |-> "sanitizeBranchName", args |-> [NoArguments EXCEPT !.title = t]] : t \in Titles}
  \cup {[cmd |-> "generateBranchName",
         args |-> [NoArguments EXCEPT !.owner = o, !.linearId = i, !.title = t]] :
          o \in Owners, i \in LinearIds, t \in LongTitles \cup StringsUpTo({"A", " ", "!"}, 2)}
  \cup {[cmd |-> c, args |-> [NoArguments EXCEPT !.branchName = b]] :
          c \in {"extractLinearIssueId", "extractBranchPrefix"}, b \in BranchNames}

(***************************************************************************)
(* direct calls of the branch-utils functions                              *)
(***************************************************************************)
SanitizeBranchNameCall ==
  /\ pc = "start"
  /\ cmd = "sanitizeBranchName"
  /\ output' = sanitizeBranchName(args.title)
  /\ pc' = "done"
  /\ UNCHANGED <<cmd, exitCode, pollVars, envPollVars, cpVars, envLinearVars, linearVars,
                 silVars, calls, envProjVars, lcVars, patchVars, prVars, startupVars, gpVars, spdfVars, branchUtils, args, cfVars,
                 gitBranches, csiVars>>

GenerateBranchNameCall ==
  /\ pc = "start"
  /\ cmd = "generateBranchName"
  /\ output' = generateBranchName(branchUtils, args.owner, args.linearId, args.title)
  /\ pc' = "done"
  /\ UNCHANGED <<cmd, exitCode, pollVars, envPollVars, cpVars, envLinearVars, linearVars,
                 silVars, calls, envProjVars, lcVars, patchVars, prVars, startupVars, gpVars, spdfVars, branchUtils, args, cfVars,
                 gitBranches, csiVars>>

ExtractLinearIssueIdCall ==
  /\ pc = "start"
  /\ cmd = "extractLinearIssueId"
  /\ output' = extractLinearIssueId(args.branchName)
  /\ pc' = "done"
  /\ UNCHANGED <<cmd, exitCode, pollVars, envPollVars, cpVars, envLinearVars, linearVars,
                 silVars, calls, envProjVars, lcVars, patchVars, prVars, startupVars, gpVars, spdfVars, branchUtils, args, cfVars,
                 gitBranches, csiVars>>

ExtractBranchPrefixCall ==
  /\ pc = "start"
  /\ cmd = "extractBranchPrefix"
  /\ output' = extractBranchPrefix(branchUtils, args.branchName)
  /\ pc' = "done"
  /\ UNCHANGED <<cmd, exitCode, pollVars, envPollVars, cpVars, envLinearVars, linearVars,
                 silVars, calls, envProjVars, lcVars, patchVars, prVars, startupVars, gpVars, spdfVars, branchUtils, args, cfVars,
                 gitBranches, csiVars>>

(***************************************************************************)
(* commitFirst                                                             *)
(***************************************************************************)
\* what every commitFirst step leaves alone
NotCommitFirst ==
  <<cmd, pollVars, envPollVars, cpVars, envLinearVars, linearVars, silVars, calls,
    envProjVars, lcVars, patchVars, prVars, startupVars, gpVars, spdfVars, buVars, hasUnpushed, gitBranches, csiVars>>

\* if (!linearApiKey) { ...; process.exit(1) }
CFCheckApiKey ==
  /\ pc = "start"
  /\ cmd = "commitFirst"
  /\ IF apiKeySet THEN pc' = "cfBranch" /\ UNCHANGED exitCode ELSE process_exit(1)
  /\ UNCHANGED <<NotCommitFirst, cfLocals, commits>>

\* branchName = execSync('git rev-parse --abbrev-ref HEAD').trim(), or exit(1) when it throws
CFReadBranch ==
  /\ pc = "cfBranch"
  /\ \E readable \in BOOLEAN :
       IF readable
         THEN /\ \E stdout \in BranchNames :
                   cfBranchName' = TrimRight(TrimLeft(stdout, Whitespace), Whitespace)
              /\ branchRead' = "ok"
              /\ pc' = "cfExtract"
              /\ UNCHANGED exitCode
         ELSE /\ branchRead' = "failed"
              /\ process_exit(1)
              /\ UNCHANGED cfBranchName
  /\ UNCHANGED <<NotCommitFirst, cfPrefix, cfLinearId, prompts, cfTitle, cfIssueNumber, commits>>

\* let prefix = extractBranchPrefix(branchName);
\* const linearId = extractLinearIssueId(branchName);
\* if (!linearId) { ...; process.exit(1) }
CFExtract ==
  /\ pc = "cfExtract"
  /\ cfPrefix' = extractBranchPrefix(branchUtils, cfBranchName)
  /\ cfLinearId' = extractLinearIssueId(cfBranchName)
  /\ IF cfLinearId' = <<>> THEN process_exit(1) ELSE pc' = "cfPrompt" /\ UNCHANGED exitCode
  /\ UNCHANGED <<NotCommitFirst, branchRead, cfBranchName, prompts, cfTitle, cfIssueNumber,
                 commits>>

\* if (!prefix) { prefix = (await inquirer.prompt([... 'Select commit type:' ...])).selectedPrefix }
CFPrompt ==
  /\ pc = "cfPrompt"
  /\ IF cfPrefix = <<>>
       THEN /\ cfPrefix' \in VALID_BRANCH_PREFIXES
            /\ prompts' = prompts + 1
       ELSE UNCHANGED <<cfPrefix, prompts>>
  /\ pc' = "cfTitle"
  /\ UNCHANGED <<NotCommitFirst, exitCode, branchRead, cfBranchName, cfLinearId, cfTitle,
                 cfIssueNumber, commits>>

\* titles of Linear issues: Add x | Say "hi" | Fix $(mk) | a\"b
IssueTitles ==
  { <<"A", "d", "d", " ", "x">>,
    <<"S", "a", "y", " ", "\"", "h", "i", "\"">>,
    <<"F", "i", "x", " ", "$", "(", "m", "k", ")">>,
    <<"a", "\\", "\"", "b">> }

\* const title = await linearClient.getIssueTitle(linearId);
\* if (!title) process.exit(1);   a rejected promise reaches the outer catch: process.exit(1)
CFFetchTitle ==
  /\ pc = "cfTitle"
  /\ \E reply \in {"ok", "null", "throws"}, title \in IssueTitles :
       /\ cfTitle' = IF reply = "ok" THEN title ELSE <<>>
       /\ IF reply = "ok" THEN pc' = "cfNumber" /\ UNCHANGED exitCode
          ELSE process_exit(1)
  /\ UNCHANGED <<NotCommitFirst, branchRead, cfBranchName, cfPrefix, cfLinearId, prompts,
                 cfIssueNumber, commits>>

\* const githubIssueNumber = await linearClient.getGitHubIssueNumber(linearId);
\* if (!githubIssueNumber) process.exit(1);
CFFetchNumber ==
  /\ pc = "cfNumber"
  /\ \E reply \in {"42", "", "throws"} :
       /\ cfIssueNumber' = IF reply = "throws" THEN "" ELSE reply
       /\ IF reply \in {"", "throws"} THEN process_exit(1)
          ELSE pc' = "cfCommit" /\ UNCHANGED exitCode
  /\ UNCHANGED <<NotCommitFirst, branchRead, cfBranchName, cfPrefix, cfLinearId, prompts,
                 cfTitle, commits>>

\* commitTitle = `${prefix}: ${linearId} ${title}`; commitBody = `solve: #${githubIssueNumber}`
commitMessage ==
  [type |-> cfPrefix, linearId |-> cfLinearId, title |-> cfTitle, solve |-> cfIssueNumber]

\* const commitTitle = `${prefix}: ${linearId} ${title}`
commitTitle == cfPrefix \o <<":", " ">> \o cfLinearId \o <<" ">> \o cfTitle

\* const commitBody = `solve: #${githubIssueNumber}`
commitBody == <<"s", "o", "l", "v", "e", ":", " ", "#">> \o <<cfIssueNumber>>

\* str.replace(/"/g, '\\"')
RECURSIVE EscapeQuotes(_)
EscapeQuotes(str) ==
  IF str = <<>> THEN <<>>
  ELSE (IF Head(str) = "\"" THEN <<"\\", "\"">> ELSE <<Head(str)>>) \o EscapeQuotes(Tail(str))

\* position of the next closing parenthesis of str from i on, 0 if there is none
RECURSIVE NextClosing(_, _)
NextClosing(str, i) ==
  IF i > Len(str) THEN 0
  ELSE IF str[i] = ")" THEN i
  ELSE NextClosing(str, i + 1)

ShPrepend(piece, rest) == [text |-> piece \o rest.text, ok |-> rest.ok]

\* what /bin/sh makes of the text between the double quotes of -m "...":
\* inside double quotes a backslash escapes " \ and $, an unescaped " ends
\* the quoting, $(command) is replaced by the command's output (subst); the
\* quote that closes the template must close an open string, else sh stops
\* with a syntax error (ok = FALSE)
RECURSIVE ShWord(_, _, _, _)
ShWord(str, i, quoted, subst) ==
  IF i > Len(str) THEN [text |-> <<>>, ok |-> quoted]
  ELSE IF str[i] = "\\" /\ quoted /\ i < Len(str) /\ str[i + 1] \in {"\"", "\\", "$"}
    THEN ShPrepend(<<str[i + 1]>>, ShWord(str, i + 2, quoted, subst))
  ELSE IF str[i] = "\"" THEN ShWord(str, i + 1, ~quoted, subst)
  ELSE IF str[i] = "$" /\ i < Len(str) /\ str[i + 1] = "("
    THEN IF NextClosing(str, i + 2) = 0 THEN [text |-> <<>>, ok |-> FALSE]
         ELSE ShPrepend(subst, ShWord(str, NextClosing(str, i + 2) + 1, quoted, subst))
  ELSE ShPrepend(<<str[i]>>, ShWord(str, i + 1, quoted, subst))

\* -m "${str.replace(/"/g, '\\"')}" as git receives it
ShArgument(str, subst) == ShWord(EscapeQuotes(str), 1, TRUE, subst)

\* what a command named in a title prints when sh runs it
CommandOutputs == {<<>>, <<"o", "k">>}

\* execSync(`git commit --allow-empty -m "..." -m "..."`), process.exit(1) when it throws
CFCommit ==
  /\ pc = "cfCommit"
  /\ \E committed \in BOOLEAN, subst \in CommandOutputs :
       LET subject == ShArgument(commitTitle, subst)
           body == ShArgument(commitBody, subst)
           created == committed /\ subject.ok /\ body.ok
       IN /\ commits' = Append(commits, [message |-> commitMessage, created |-> created,
                                         subject |-> subject.text, body |-> body.text])
          /\ IF created THEN pc' = "done" /\ exitCode' = 0 ELSE process_exit(1)
  /\ UNCHANGED <<NotCommitFirst, cfLocals>>

(***************************************************************************)
(* loadEnvFile and the lgcmf binary                                        *)
(***************************************************************************)
MaxDepth == 2

\* two versions of env-utils are in the repository:
\* "strict" exits when no .env holds the key, "lenient" falls back to process.env
EnvUtilsVersions == {"strict", "lenient"}

\* a directory has no .env, one with a non-empty LINEAR_API_KEY line, or one without
EnvFileStates == {"none", "key", "nokey"}

\* existsSync(envPath)
existsSync(file) == file # "none"

\* hasLinearApiKey(envPath)
hasLinearApiKey(file) == file = "key"

\* depth of process.cwd() below the root
CwdDepth == Cardinality(DOMAIN envFiles) - 1

\* resolve(currentDir, '.env') and resolve(homedir(), '.env')
DirEnv(depth) == [at |-> "dir", depth |-> depth]
HomeEnv == [at |-> "home", depth |-> 0]

\* what every loadEnvFile step leaves alone
NotLoadEnv ==
  <<exitCode, pollVars, envPollVars, details, githubProject, ghIssues, projectDates,
    linearProjectId, branchCreated, envLinearVars, linearVars, silVars, calls, envProjVars, lcVars, patchVars, prVars,
    envStartVars, gpVars, spdfVars, buVars, cfVars, gitBranches, csiVars>>

\* lgcmf.ts: loadEnvFile(); let currentDir = process.cwd()
LoadEnvFileEnter ==
  /\ pc = "start"
  /\ cmd \in {"lgcmf", "loadEnvFile"}
  /\ currentDir' = CwdDepth
  /\ envLoad' = "running"
  /\ pc' = "loadEnvWalk"
  /\ UNCHANGED <<cmd, apiKeySet, loadedFiles, NotLoadEnv>>

\* exitMissingLinearApiKey(): process.exit(1)
exitMissingLinearApiKey ==
  /\ envLoad' = "exited"
  /\ pc' = "exited"
  /\ exitCode' = 1
  /\ UNCHANGED <<cmd, apiKeySet, loadedFiles>>

\* config({ path }); return;  then lgcmf.ts calls commitFirst()
\* dotenv sets LINEAR_API_KEY from the file unless process.env already has it
configAndReturn(file, path) ==
  /\ apiKeySet' = (apiKeySet \/ file = "key")
  /\ loadedFiles' = IF existsSync(file) THEN Append(loadedFiles, path) ELSE loadedFiles
  /\ envLoad' = "returned"
  /\ IF cmd = "lgcmf"
       THEN cmd' = "commitFirst" /\ pc' = "start"
       ELSE cmd' = cmd /\ pc' = "done"
  /\ UNCHANGED exitCode

\* if (existsSync(envPath)) { [if (!hasLinearApiKey(envPath)) exitMissingLinearApiKey();]
\*                            config({ path: envPath }); return; }
LoadFound(file, path) ==
  IF envUtils = "strict" /\ ~hasLinearApiKey(file)
    THEN exitMissingLinearApiKey
    ELSE configAndReturn(file, path)

\* what a step that may end loadEnvFile leaves alone
NotLoadEnvResult ==
  <<pollVars, envPollVars, details, githubProject, ghIssues, projectDates,
    linearProjectId, branchCreated, envLinearVars, linearVars, silVars, calls, envProjVars, lcVars, patchVars, prVars,
    envStartVars, gpVars, spdfVars, buVars, cfVars, gitBranches, csiVars>>

\* while (currentDir !== root) { ...; currentDir = dirname(currentDir) }
LoadEnvWalk ==
  /\ pc = "loadEnvWalk"
  /\ IF currentDir = 0
       THEN /\ pc' = "loadEnvHome"
            /\ UNCHANGED <<cmd, apiKeySet, exitCode, currentDir, envLoad, loadedFiles>>
       ELSE IF existsSync(envFiles[currentDir])
         THEN LoadFound(envFiles[currentDir], DirEnv(currentDir)) /\ UNCHANGED currentDir
         ELSE /\ currentDir' = currentDir - 1
              /\ UNCHANGED <<cmd, pc, apiKeySet, exitCode, envLoad, loadedFiles>>
  /\ UNCHANGED NotLoadEnvResult

\* the home directory, then exitMissingLinearApiKey() ("strict") or config() ("lenient"),
\* which reads the .env of the working directory when there is one
LoadEnvHome ==
  /\ pc = "loadEnvHome"
  /\ IF existsSync(homeEnv) THEN LoadFound(homeEnv, HomeEnv)
     ELSE IF envUtils = "strict" THEN exitMissingLinearApiKey
     ELSE configAndReturn(envFiles[CwdDepth], DirEnv(CwdDepth))
  /\ UNCHANGED <<currentDir, NotLoadEnvResult>>

(***************************************************************************)
(* gh-pr-safe (the prdf wrapper)                                           *)
(***************************************************************************)
MaxAhead == 3

\* a repository in which gh-pr-safe is not run
NoPrEnv == [baseRemote |-> TRUE, mainAhead |-> 0, branchRemote |-> FALSE, branchAhead |-> 0]

\* git rev-parse --verify origin/$BASE_BRANCH, git rev-list --count origin/$BASE_BRANCH..$BASE_BRANCH,
\* git rev-parse --verify origin/$BRANCH, git rev-list --count origin/$BRANCH..HEAD
PrEnvs ==
  {e \in [baseRemote : BOOLEAN, mainAhead : 0 .. MaxAhead, branchRemote : BOOLEAN,
          branchAhead : 0 .. MaxAhead] :
     /\ ~e.baseRemote => e.mainAhead = 0
     /\ ~e.branchRemote => e.branchAhead = 0}

\* read -p "Continue anyway? (y/N): " -n 1 -r
Replies == {"y", "Y", "n", ""}

\* [[ ! $REPLY =~ ^[Yy]$ ]]
Declined(reply) == reply \notin {"y", "Y"}

\* what every gh-pr-safe step leaves alone
NotPrSafe ==
  <<cmd, pollVars, envPollVars, cpVars, envLinearVars, linearVars, silVars, calls,
    envProjVars, lcVars, patchVars, startupVars, gpVars, spdfVars, buVars, cfVars, gitBranches, csiVars, prEnv>>

\* exec gh pr create ...: the script ends with the exit status of gh
ExecGhPrCreate ==
  /\ prCreated' = prCreated + 1
  /\ \E status \in {0, 1} : exitCode' = status /\ pc' = (IF status = 0 THEN "done" ELSE "exited")

\* the list of unpushed commits, the prompt, and 'Aborted.' exit 1 on any answer but y or Y
WarnAndPrompt(about, ahead, next) ==
  \E reply \in Replies :
    /\ prLog' = Append(prLog, [about |-> about, listed |-> ahead, reply |-> reply])
    /\ IF Declined(reply) THEN process_exit(1) ELSE pc' = next /\ UNCHANGED exitCode

\* if ! git rev-parse --verify "$BASE_REMOTE"; then exec gh pr create --fill "$@"; fi
PRSCheckBase ==
  /\ pc = "start"
  /\ cmd = "gh-pr-safe"
  /\ IF prEnv.baseRemote
       THEN pc' = "prsMain" /\ UNCHANGED <<exitCode, prCreated>>
       ELSE ExecGhPrCreate
  /\ UNCHANGED <<NotPrSafe, prLog>>

\* if [ "$MAIN_AHEAD" -gt 0 ]; then ...; read; ...; fi
PRSCheckMain ==
  /\ pc = "prsMain"
  /\ IF prEnv.mainAhead > 0
       THEN WarnAndPrompt("base", prEnv.mainAhead, "prsBranch")
       ELSE pc' = "prsBranch" /\ UNCHANGED <<exitCode, prLog>>
  /\ UNCHANGED <<NotPrSafe, prCreated>>

\* variant: one unpushed commit already prompts
BranchNeedsPrompt_AnyAhead == prEnv.branchRemote /\ prEnv.branchAhead > 0

\* if git rev-parse --verify "origin/$BRANCH"; then ...; if [ "$BRANCH_AHEAD" -gt 1 ]
BranchNeedsPrompt == prEnv.branchRemote /\ prEnv.branchAhead > 1

PRSCheckBranch ==
  /\ pc = "prsBranch"
  /\ IF BranchNeedsPrompt
       THEN WarnAndPrompt("branch", prEnv.branchAhead, "prsCreate")
       ELSE pc' = "prsCreate" /\ UNCHANGED <<exitCode, prLog>>
  /\ UNCHANGED <<NotPrSafe, prCreated>>

\* exec gh pr create --title "$PR_TITLE" --fill "$@"
PRSCreate ==
  /\ pc = "prsCreate"
  /\ ExecGhPrCreate
  /\ UNCHANGED <<NotPrSafe, prLog>>

(***************************************************************************)
(* createParentIssue                                                       *)
(***************************************************************************)
DetailValues ==
  [dueDate : {"", "2025-12-31"}, startDate : {"", "2025-12-01"}, labels : LabelSelections]


\* if (!linearApiKey) { ...; process.exit(1) }
CPCheckApiKey ==
  /\ pc = "start"
  /\ cmd = "createParentIssue"
  /\ IF apiKeySet THEN pc' = "selectRepository" /\ UNCHANGED exitCode ELSE Exit1
  /\ UNCHANGED <<cmd, extVars, pollVars, envPollVars, cpVars, envLinearVars, linearVars, silVars, calls>>

\* variant: unpushed commits are only warned about
CPCheckUnpushed_WarnOnly ==
  /\ pc = "selectRepository"
  /\ hasUnpushed' \in {"yes", "no"}
  /\ pc' = "promptIssueDetails"
  /\ UNCHANGED <<cmd, exitCode, envProjVars, lcVars, patchVars, prVars, startupVars, gpVars, spdfVars, buVars, cfLocals, commits, gitBranches, csiVars,
                 pollVars, envPollVars, cpVars, envLinearVars, linearVars, silVars, calls>>

\* selectRepository, then checkUnpushedCommitsOnCurrentBranch:
\* if (unpushedCheck.hasUnpushed) { ...; process.exit(1) }
CPCheckUnpushed ==
  /\ pc = "selectRepository"
  /\ \E unpushed \in {"yes", "no"} :
       /\ hasUnpushed' = unpushed
       /\ IF unpushed = "yes" THEN Exit1 ELSE pc' = "promptIssueDetails" /\ UNCHANGED exitCode
  /\ UNCHANGED <<cmd, envProjVars, lcVars, patchVars, prVars, startupVars, gpVars, spdfVars, buVars, cfLocals, commits, gitBranches, csiVars, pollVars,
                 envPollVars, cpVars, envLinearVars, linearVars, silVars, calls>>

\* const details = await inputHandler.promptIssueDetails(repo);
\* const githubProject = await inputHandler.selectProject(repo);
CPPromptIssueDetails ==
  /\ pc = "promptIssueDetails"
  /\ details' \in DetailValues
  /\ githubProject' \in {"", "Roadmap"}
  /\ pc' = "createIssue"
  /\ UNCHANGED <<cmd, extVars, exitCode, pollVars, envPollVars, apiKeySet, ghIssues, projectDates,
                 linearProjectId, branchCreated, envLinearVars, linearVars, silVars, calls>>

\* const issue = await githubClient.createIssue({...}): gh issue create may throw
CPCreateIssue ==
  /\ pc = "createIssue"
  /\ \E gh \in {"ok", "throws"} :
       IF gh = "ok"
         THEN /\ ghIssues' = ghIssues + 1
              /\ pc' = "setProjectDateFields"
         ELSE /\ ghIssues' = ghIssues
              /\ pc' = "threw"
  /\ UNCHANGED <<cmd, extVars, exitCode, pollVars, envPollVars, apiKeySet, details, githubProject,
                 projectDates, linearProjectId, branchCreated, envLinearVars, linearVars,
                 silVars, calls>>

\* linearClient.waitForIssueByGitHubUrl(issue.url, {maxAttempts, delayMs, onRetry})
CreateParentPollEnter ==
  PollEnter([maxAttemptsGiven |-> TRUE, maxAttempts |-> linearSyncMaxAttempts,
             delayMsGiven |-> TRUE, delayMs |-> linearSyncDelayMs, onRetry |-> TRUE])

\* if (githubProject && (details.dueDate || details.startDate))
\*   await githubClient.setProjectDateFields(repo, githubProject, issue.id,
\*     details.dueDate || undefined, details.startDate || undefined)
\* else straight to the poller call with create-parent's options
CPSetProjectDateFields ==
  /\ pc = "setProjectDateFields"
  /\ IF githubProject # "" /\ (details.dueDate # "" \/ details.startDate # "")
       THEN /\ SetProjectDateFieldsEnter(details.dueDate, details.startDate)
            /\ pc' = "spdfProject"
            /\ UNCHANGED <<projectDates, pollVars>>
       ELSE /\ projectDates' = "skipped"
            /\ CreateParentPollEnter
            /\ pc' = "pollLookup"
            /\ UNCHANGED spdfVars
  /\ UNCHANGED <<cmd, exitCode, envPollVars, apiKeySet, details, githubProject, ghIssues,
                 linearProjectId, branchCreated, envLinearVars, linearVars, silVars, calls,
                 envProjVars, lcVars, patchVars, prVars, startupVars, gpVars, buVars, cfVars, gitBranches, csiVars>>

\* setProjectDateFields has returned (its boolean is not used); then the poller call
CPAfterDateFields ==
  /\ pc = "spdfReturned"
  /\ cmd = "createParentIssue"
  /\ projectDates' = IF spdfResult THEN "set" ELSE "failed"
  /\ CreateParentPollEnter
  /\ pc' = "pollLookup"
  /\ UNCHANGED <<cmd, exitCode, envPollVars, apiKeySet, details, githubProject, ghIssues,
                 linearProjectId, branchCreated, envLinearVars, linearVars, silVars, calls,
                 extVars>>

\* variant: a missing Linear issue is treated as fatal
CPAfterPoll_ExitOnMiss ==
  /\ pc = "afterPoll"
  /\ IF issueId # ""
       THEN pc' = "findProject" /\ UNCHANGED exitCode
       ELSE Exit1
  /\ UNCHANGED <<cmd, extVars, pollVars, envPollVars, cpVars, envLinearVars, linearVars, silVars, calls>>

\* if (linearIssueId) { ... } else { console.log('Linear issue not found yet...') }
\* console.log('Next steps ...') and normal return
CPAfterPoll ==
  /\ pc = "afterPoll"
  /\ IF issueId # ""
       THEN pc' = "findProject" /\ UNCHANGED exitCode
       ELSE pc' = "done" /\ exitCode' = 0
  /\ UNCHANGED <<cmd, extVars, pollVars, envPollVars, cpVars, envLinearVars, linearVars, silVars, calls>>

\* linearProjectId = githubProject ? await findProjectByName(githubProject)
\*                                 : await inputHandler.selectLinearProject()
\* both list Linear projects and may throw; then the label step is chosen:
\* if (details.labels && details.labels.length > 0) setIssueLabels(...)
CPFindProject ==
  /\ pc = "findProject"
  /\ \E found \in LinearProjects \cup {"", "throws"} :
       IF found = "throws"
         THEN /\ pc' = "threw"
              /\ UNCHANGED <<linearProjectId, labelIdx, labelIds, silStatus>>
         ELSE /\ linearProjectId' = found
              /\ IF Len(details.labels) > 0
                   THEN /\ pc' = "silTeam"
                        /\ labelIdx' = 1
                        /\ labelIds' = <<>>
                        /\ silStatus' = "running"
                   ELSE /\ pc' = "updateMetadata"
                        /\ UNCHANGED <<labelIdx, labelIds, silStatus>>
  /\ UNCHANGED <<cmd, extVars, exitCode, pollVars, envPollVars, apiKeySet, details, githubProject,
                 ghIssues, projectDates, branchCreated, envLinearVars, linearVars,
                 silResult, foclLog, calls>>

\* const success = await linearClient.updateIssueMetadata(
\*   linearIssueId, details.dueDate || undefined, linearProjectId || undefined)
CPUpdateMetadata ==
  /\ pc = "updateMetadata"
  /\ \E fetch \in {"ok", "throws"}, reply \in {"ok", "errors", "throws"} :
       LET r == updateIssueMetadata(details.dueDate, linearProjectId, <<>>, fetch, reply)
       IN /\ issue' = r.issue
          /\ writes' = r.writes
          /\ faults' = r.faults
  /\ calls' = Append(calls, Call(details.dueDate, linearProjectId, <<>>, "createParentIssue"))
  /\ pc' = "createBranch"
  /\ UNCHANGED <<cmd, extVars, exitCode, pollVars, envPollVars, cpVars, envLinearVars, labelStore,
                 silVars>>

\* Step 6: prompt, getIssueIdentifier, generateBranchName, createGitBranch;
\* createGitBranch runs 'git switch -c' when the repository and branch checks pass
CPCreateBranch ==
  /\ pc = "createBranch"
  /\ \E createBranch \in BOOLEAN, identifier \in BOOLEAN, checks \in BOOLEAN, success \in BOOLEAN :
       /\ gitBranches' = IF createBranch /\ identifier /\ checks THEN gitBranches + 1
                         ELSE gitBranches
       /\ branchCreated' = (createBranch /\ identifier /\ checks /\ success)
  /\ pc' = "done"
  /\ exitCode' = 0
  /\ UNCHANGED <<cmd, envProjVars, lcVars, patchVars, prVars, startupVars, gpVars, spdfVars, buVars, cfVars, csiVars, pollVars,
                 envPollVars, apiKeySet, details, githubProject, ghIssues,
                 projectDates, linearProjectId, envLinearVars, linearVars, silVars, calls>>

(***************************************************************************)
(* GitHubClientWrapper.createSubIssue                                      *)
(***************************************************************************)
\* const issue = await this.createIssue({...}): 'gh issue create', then the
\* URL is parsed and the node ID fetched; createIssue throws when gh fails
\* (no issue) or when a later step fails (the issue exists already)
CSICreateIssue ==
  /\ pc = "start"
  /\ cmd = "createSubIssue"
  /\ \E gh \in {"ok", "throws", "createdThenThrows"} :
       /\ ghIssues' = IF gh = "throws" THEN ghIssues ELSE ghIssues + 1
       /\ IF gh = "ok"
            THEN csiStatus' = "running" /\ pc' = "csiLink"
            ELSE csiStatus' = "threw" /\ pc' = "threw"
  /\ UNCHANGED <<cmd, exitCode, pollVars, envPollVars, apiKeySet, details, githubProject,
                 projectDates, linearProjectId, branchCreated, envLinearVars, linearVars,
                 silVars, calls, envProjVars, lcVars, patchVars, prVars, startupVars, gpVars,
                 spdfVars, buVars, cfVars, gitBranches, subLinks, subIssueLinked>>

\* variant: a failed addSubIssue mutation is caught and the issue returned
CSILink_IgnoreLinkError ==
  /\ pc = "csiLink"
  /\ \E parent \in {"ok", "throws"}, link \in {"ok", "throws"} :
       /\ subLinks' = IF parent = "ok" THEN subLinks + 1 ELSE subLinks
       /\ subIssueLinked' = (parent = "ok" /\ link = "ok")
       /\ IF parent = "ok"
            THEN csiStatus' = "returned" /\ pc' = "done"
            ELSE csiStatus' = "threw" /\ pc' = "threw"
  /\ UNCHANGED <<cmd, exitCode, pollVars, envPollVars, cpVars, envLinearVars, linearVars,
                 silVars, calls, envProjVars, lcVars, patchVars, prVars, startupVars, gpVars,
                 spdfVars, buVars, cfVars, gitBranches>>

\* const parentIssue = await this.getIssueById(...); execSync(addSubIssue mutation);
\* return issue
CSILink ==
  /\ pc = "csiLink"
  /\ \E parent \in {"ok", "throws"}, link \in {"ok", "throws"} :
       /\ subLinks' = IF parent = "ok" THEN subLinks + 1 ELSE subLinks
       /\ subIssueLinked' = (parent = "ok" /\ link = "ok")
       /\ IF parent = "ok" /\ link = "ok"
            THEN csiStatus' = "returned" /\ pc' = "done"
            ELSE csiStatus' = "threw" /\ pc' = "threw"
  /\ UNCHANGED <<cmd, exitCode, pollVars, envPollVars, cpVars, envLinearVars, linearVars,
                 silVars, calls, envProjVars, lcVars, patchVars, prVars, startupVars, gpVars,
                 spdfVars, buVars, cfVars, gitBranches>>

\* cli.ts: try { await createParentIssue() } catch (error) { ...; process.exit(1) }
CliCatch ==
  /\ pc = "threw"
  /\ cmd = "createParentIssue"
  /\ Exit1
  /\ UNCHANGED <<cmd, extVars, pollVars, envPollVars, cpVars, envLinearVars, linearVars, silVars, calls>>

\* state at process start, before the command has run
Start(command) ==
  /\ cmd = command
  /\ pc = "start"
  /\ exitCode = -1
  /\ options = [maxAttemptsGiven |-> FALSE, maxAttempts |-> 0,
                delayMsGiven |-> FALSE, delayMs |-> 0, onRetry |-> FALSE]
  /\ attempt = 0
  /\ lookups = 0
  /\ retries = 0
  /\ sleeps = 0
  /\ slept = 0
  /\ issueId = ""
  /\ pollStatus = "idle"
  /\ details = [dueDate |-> "", startDate |-> "", labels |-> <<>>]
  /\ githubProject = ""
  /\ ghIssues = 0
  /\ projectDates = "skipped"
  /\ linearProjectId = ""
  /\ branchCreated = FALSE
  /\ issue = [dueDate |-> "", projectId |-> "", labelIds |-> <<>>]
  /\ patchRound = 0
  /\ linearApiKey = ""
  /\ wrappers = <<>>
  /\ rawRequests = <<>>
  /\ patchFirst = [issue |-> [dueDate |-> "", projectId |-> "", labelIds |-> <<>>],
                   labelStore |-> [t \in Teams |-> <<>>], writes |-> 0, faults |-> {}]
  /\ labelIdx = 0
  /\ labelIds = <<>>
  /\ silResult = <<>>
  /\ silStatus = "idle"
  /\ foclLog = <<>>
  /\ calls = <<>>
  /\ writes = <<>>
  /\ faults = {}
  /\ maxRetries = 0
  /\ gpAttempt = 0
  /\ cursor = 0
  /\ hasNextPage = FALSE
  /\ allItems = {}
  /\ gpQueries = <<>>
  /\ gpOutcomes = <<>>
  /\ gpWaits = <<>>
  /\ gpStatus = "idle"
  /\ itemId = 0
  /\ targetDate = ""
  /\ startDate = ""
  /\ ghProjectId = ""
  /\ spdfSuccess = FALSE
  /\ dateLog = <<>>
  /\ spdfStatus = "idle"
  /\ spdfResult = FALSE
  /\ output = <<>>
  /\ hasUnpushed = "unknown"
  /\ branchRead = "pending"
  /\ cfBranchName = <<>>
  /\ cfPrefix = <<>>
  /\ cfLinearId = <<>>
  /\ prompts = 0
  /\ cfTitle = <<>>
  /\ cfIssueNumber = ""
  /\ commits = <<>>
  /\ gitBranches = 0
  /\ subLinks = 0
  /\ subIssueLinked = FALSE
  /\ csiStatus = "idle"
  /\ currentDir = 0
  /\ envLoad = "idle"
  /\ loadedFiles = <<>>
  /\ prLog = <<>>
  /\ prCreated = 0

\* project environments: where and when the issue's item shows up, which queries fail
ProjectEnvs ==
  {e \in [projPages : 1 .. MaxPages, itemPage : 1 .. MaxPages, itemFrom : 0 .. MaxRetriesBound + 1,
          failAttempts : SUBSET (1 .. MaxRetriesBound), failPage : 1 .. MaxPages] :
     /\ e.itemPage <= e.projPages
     /\ e.failPage <= e.projPages
     /\ (e.failAttempts = {} => e.failPage = 1)}

\* env is the state of the GitHub project during the run
ProjectEnv(e) ==
  /\ projPages = e.projPages
  /\ itemPage = e.itemPage
  /\ itemFrom = e.itemFrom
  /\ failAttempts = e.failAttempts
  /\ failPage = e.failPage

\* the project environment of the full create-parent runs: after a first attempt whose
\* query fails, the item shows up on the second page at the second attempt
CreateParentProjectEnvs ==
  {[projPages |-> 2, itemPage |-> 2, itemFrom |-> 2, failAttempts |-> {1}, failPage |-> 2]}

\* no branch-utils function is called directly; create-parent.ts calls
\* generateBranchName(owner, ...) of the "owner" version
NoBranchUtilsCall == branchUtils = "owner" /\ args = NoArguments

\* the run starts after loadEnvFile has returned: what was loaded is in apiKeySet
EnvLoaded ==
  /\ envUtils = "lenient"
  /\ shellKey = apiKeySet
  /\ envFiles = [d \in 0 .. 0 |-> "none"]
  /\ homeEnv = "none"
  /\ prEnv = NoPrEnv
  /\ NoWorkspace

\* a Linear workspace and a GitHub project the run never gets an answer from
IdleLinear ==
  /\ foundAt = 0
  /\ throwAt = 0
  /\ issueTeam = "T1"
  /\ labelStore = [t \in Teams |-> <<>>]

IdleProject ==
  ProjectEnv([projPages |-> 1, itemPage |-> 1, itemFrom |-> 1, failAttempts |-> {},
              failPage |-> 1])

\* the create-parent command (lg create-parent)
CreateParentInit ==
  /\ Start("createParentIssue")
  /\ foundAt \in {0, linearSyncMaxAttempts, linearSyncMaxAttempts + 1}   \* never, last attempt, too late
  /\ throwAt \in ThrowAtValues
  /\ throwAt = 0 \/ foundAt = 0 \/ throwAt <= foundAt   \* a later throw is never reached
  /\ apiKeySet \in BOOLEAN
  /\ EnvLoaded
  /\ issueTeam \in Teams
  /\ labelStore \in InitialLabelStores
  /\ \E e \in CreateParentProjectEnvs : ProjectEnv(e)
  /\ NoBranchUtilsCall

\* the commit-first command (lgcmf), compiled with either version of branch-utils
CommitFirstInit ==
  /\ Start("commitFirst")
  /\ apiKeySet \in BOOLEAN
  /\ EnvLoaded
  /\ branchUtils \in BranchUtilsVersions
  /\ args = NoArguments
  /\ IdleLinear
  /\ IdleProject

\* a direct call of githubClient.createSubIssue
CreateSubIssueInit ==
  /\ Start("createSubIssue")
  /\ apiKeySet = TRUE
  /\ EnvLoaded
  /\ IdleLinear
  /\ IdleProject
  /\ NoBranchUtilsCall

\* one run of either command, or one createSubIssue call
Init == CreateParentInit \/ CommitFirstInit \/ CreateSubIssueInit

Next ==
  \/ CPCheckApiKey
  \/ CPCheckUnpushed
  \/ CPPromptIssueDetails
  \/ CPCreateIssue
  \/ CPSetProjectDateFields
  \/ SPDFProject
  \/ GPAttempt
  \/ GPQuery
  \/ GPFind
  \/ GPCatch
  \/ GPWait
  \/ SPDFItem
  \/ SPDFTarget
  \/ SPDFStart
  \/ CPAfterDateFields
  \/ PollLookup
  \/ PollCheck
  \/ PollOnRetry
  \/ PollSleep
  \/ CPAfterPoll
  \/ CPFindProject
  \/ SetIssueLabelsTeam
  \/ SetIssueLabelsResolve
  \/ SetIssueLabelsUpdate
  \/ CPUpdateMetadata
  \/ CPCreateBranch
  \/ CliCatch
  \/ CFCheckApiKey
  \/ CFReadBranch
  \/ CFExtract
  \/ CFPrompt
  \/ CFFetchTitle
  \/ CFFetchNumber
  \/ CFCommit
  \/ CSICreateIssue
  \/ CSILink

Spec == Init /\ [][Next]_vars

\* a call of waitForIssueByGitHubUrl with any options of its signature
PollerInit ==
  /\ Start("waitForIssueByGitHubUrl")
  /\ foundAt \in FoundAtValues
  /\ throwAt \in ThrowAtValues
  /\ apiKeySet = TRUE
  /\ EnvLoaded
  /\ issueTeam = "T1"
  /\ labelStore = [t \in Teams |-> <<>>]
  /\ IdleProject
  /\ NoBranchUtilsCall

PollerNext ==
  \/ WaitCall
  \/ PollLookup
  \/ PollCheck
  \/ PollOnRetry
  \/ PollSleep

PollerSpec == PollerInit /\ [][PollerNext]_vars

\* every awaited lookup and every timer completes: the loop always takes its next step
PollerFairSpec == PollerSpec /\ WF_vars(PollerNext)

\* a call of getProjectItemId or of setProjectDateFields against any project environment
ProjectInit ==
  /\ \E command \in {"getProjectItemId", "setProjectDateFields"} : Start(command)
  /\ \E e \in ProjectEnvs : ProjectEnv(e)
  /\ apiKeySet = TRUE
  /\ EnvLoaded
  /\ IdleLinear
  /\ NoBranchUtilsCall

ProjectNext ==
  \/ GetProjectItemIdCall
  \/ SetProjectDateFieldsCall
  \/ SPDFProject
  \/ GPAttempt
  \/ GPQuery
  \/ GPFind
  \/ GPCatch
  \/ GPWait
  \/ SPDFItem
  \/ SPDFTarget
  \/ SPDFStart

ProjectSpec == ProjectInit /\ [][ProjectNext]_vars

\* every gh query and every timer completes
ProjectFairSpec == ProjectSpec /\ WF_vars(ProjectNext)

\* single-page projects whose queries all succeed or all fail
DateFieldsEnvs ==
  {e \in ProjectEnvs : e.projPages = 1 /\ e.failAttempts \in {{}, 1 .. DefaultMaxRetries}}

\* create-parent runs up to the end of the Linear sync wait, against a project whose
\* item may show up at any attempt or never, while Linear never syncs the issue
DateFieldsInit ==
  /\ Start("createParentIssue")
  /\ \E e \in DateFieldsEnvs : ProjectEnv(e)
  /\ apiKeySet \in BOOLEAN
  /\ EnvLoaded
  /\ IdleLinear
  /\ NoBranchUtilsCall

DateFieldsNext ==
  \/ CPCheckApiKey
  \/ CPCheckUnpushed
  \/ CPPromptIssueDetails
  \/ CPCreateIssue
  \/ CPSetProjectDateFields
  \/ SPDFProject
  \/ GPAttempt
  \/ GPQuery
  \/ GPFind
  \/ GPCatch
  \/ GPWait
  \/ SPDFItem
  \/ SPDFTarget
  \/ SPDFStart
  \/ CPAfterDateFields
  \/ PollLookup
  \/ PollCheck
  \/ PollOnRetry
  \/ PollSleep
  \/ CPAfterPoll
  \/ CliCatch

DateFieldsSpec == DateFieldsInit /\ [][DateFieldsNext]_vars

\* a direct call of one branch-utils function, or a commit-first run whose branch name
\* is any of BranchNames, with either version of the module
BranchInit ==
  /\ \/ \E c \in BranchUtilsCalls : Start(c.cmd) /\ args = c.args
     \/ Start("commitFirst") /\ args = NoArguments
  /\ branchUtils \in BranchUtilsVersions
  /\ apiKeySet = TRUE
  /\ EnvLoaded
  /\ IdleLinear
  /\ IdleProject

BranchNext ==
  \/ SanitizeBranchNameCall
  \/ GenerateBranchNameCall
  \/ ExtractLinearIssueIdCall
  \/ ExtractBranchPrefixCall
  \/ CFCheckApiKey
  \/ CFReadBranch
  \/ CFExtract
  \/ CFPrompt
  \/ CFFetchTitle
  \/ CFFetchNumber
  \/ CFCommit

BranchSpec == BranchInit /\ [][BranchNext]_vars

\* the .env files a run can look at: the walk stops at the first one it finds, the home
\* directory is looked at only after a walk that found none, and the root only by config()
StartupEnvs ==
  {e \in [files : UNION {[0 .. d -> EnvFileStates] : d \in 0 .. MaxDepth}, home : EnvFileStates] :
     LET d == Cardinality(DOMAIN e.files) - 1
         found == {i \in 1 .. d : e.files[i] # "none"}
     IN /\ Cardinality(found) <= 1
        /\ d > 0 => e.files[0] = "none"
        /\ found # {} => e.home = "none"}

\* one run of the lgcmf binary, built with either version of loadEnvFile
StartupInit ==
  /\ Start("lgcmf")
  /\ envUtils \in EnvUtilsVersions
  /\ shellKey \in BOOLEAN
  /\ apiKeySet = shellKey
  /\ \E e \in StartupEnvs : envFiles = e.files /\ homeEnv = e.home
  /\ prEnv = NoPrEnv
  /\ NoWorkspace
  /\ branchUtils = "owner"
  /\ args = NoArguments
  /\ IdleLinear
  /\ IdleProject

StartupNext ==
  \/ LoadEnvFileEnter
  \/ LoadEnvWalk
  \/ LoadEnvHome
  \/ CFCheckApiKey
  \/ CFReadBranch
  \/ CFExtract
  \/ CFPrompt
  \/ CFFetchTitle
  \/ CFFetchNumber
  \/ CFCommit

StartupSpec == StartupInit /\ [][StartupNext]_vars

\* a direct call of loadEnvFile, of either version, with any layout of .env files
EnvFileLayouts ==
  [files : UNION {[0 .. d -> EnvFileStates] : d \in 0 .. MaxDepth}, home : EnvFileStates]

LoadEnvFileInit ==
  /\ Start("loadEnvFile")
  /\ envUtils \in EnvUtilsVersions
  /\ shellKey \in BOOLEAN
  /\ apiKeySet = shellKey
  /\ \E e \in EnvFileLayouts : envFiles = e.files /\ homeEnv = e.home
  /\ prEnv = NoPrEnv
  /\ NoWorkspace
  /\ NoBranchUtilsCall
  /\ IdleLinear
  /\ IdleProject

LoadEnvFileNext ==
  \/ LoadEnvFileEnter
  \/ LoadEnvWalk
  \/ LoadEnvHome

LoadEnvFileSpec == LoadEnvFileInit /\ [][LoadEnvFileNext]_vars

\* one run of gh-pr-safe in any state of the repository
PrSafeInit ==
  /\ Start("gh-pr-safe")
  /\ prEnv \in PrEnvs
  /\ NoWorkspace
  /\ apiKeySet = TRUE
  /\ envUtils = "lenient"
  /\ shellKey = apiKeySet
  /\ envFiles = [d \in 0 .. 0 |-> "none"]
  /\ homeEnv = "none"
  /\ NoBranchUtilsCall
  /\ IdleLinear
  /\ IdleProject

PrSafeNext ==
  \/ PRSCheckBase
  \/ PRSCheckMain
  \/ PRSCheckBranch
  \/ PRSCreate

PrSafeSpec == PrSafeInit /\ [][PrSafeNext]_vars

(***************************************************************************)
(* Properties of the sync-wait poller                                      *)
(***************************************************************************)
PollEnded == pollStatus \in {"returned", "threw"}

Max(a, b) == IF a >= b THEN a ELSE b

\* the options create-parent passes to the poller
CreateParentOptions ==
  /\ options.maxAttemptsGiven /\ options.maxAttempts = linearSyncMaxAttempts
  /\ options.delayMsGiven /\ options.delayMs = linearSyncDelayMs
  /\ options.onRetry

\* C1: called with maxAttempts = N >= 1, when the lookup first returns an
\* issue ID on its k-th call (1 <= k <= N, the earlier calls returning null),
\* the poller never makes more than k lookups, does not reject, and when it
\* has returned it returned that ID after exactly k lookups.
C1_FoundOnAttemptK ==
  (/\ pollStatus # "idle"
   /\ options.maxAttemptsGiven /\ options.maxAttempts >= 1
   /\ foundAt >= 1 /\ foundAt <= options.maxAttempts
   /\ ~(throwAt >= 1 /\ throwAt <= foundAt))
  => /\ lookups <= foundAt
     /\ pollStatus # "threw"
     /\ (pollStatus = "returned" => issueId = LinearIssueId /\ lookups = foundAt)

C1_Witness ==
  /\ pollStatus = "returned" /\ issueId = LinearIssueId
  /\ options.maxAttemptsGiven /\ options.maxAttempts = 3
  /\ foundAt = 3 /\ lookups = 3 /\ throwAt = 0

\* C2 as stated: with maxAttempts given and no lookup ever matching, the
\* poller returns null after exactly maxAttempts lookups.
C2_Original ==
  (pollStatus = "returned" /\ options.maxAttemptsGiven /\ foundAt = 0 /\ throwAt = 0)
  => issueId = "" /\ lookups = options.maxAttempts

\* C2 amended: with maxAttempts given and no lookup ever matching, the poller
\* never makes more than max(1, maxAttempts) lookups and returns null after
\* exactly max(1, maxAttempts) lookups: maxAttempts for maxAttempts >= 1, and
\* one lookup for maxAttempts <= 0.
C2_NeverFound ==
  (pollStatus # "idle" /\ options.maxAttemptsGiven /\ foundAt = 0 /\ throwAt = 0)
  => /\ lookups <= Max(1, options.maxAttempts)
     /\ pollStatus # "threw"
     /\ (pollStatus = "returned"
           => issueId = "" /\ lookups = Max(1, options.maxAttempts))

C2_Witness ==
  /\ pollStatus = "returned" /\ issueId = ""
  /\ options.maxAttemptsGiven /\ options.maxAttempts = 3
  /\ foundAt = 0 /\ throwAt = 0 /\ lookups = 3

RetryCounts ==
  /\ options.onRetry => sleeps <= retries /\ retries <= sleeps + 1
  /\ ~options.onRetry => retries = 0
  /\ pc \in {"pollOnRetry", "pollSleep"} => issueId = "" /\ ~AttemptsExhausted
  /\ pc = "pollOnRetry" => (options.onRetry => retries = sleeps)
  /\ pc = "pollSleep" => (options.onRetry /\ retries < CounterCap => retries = sleeps + 1)
  /\ PollEnded => /\ sleeps = lookups - 1
                  /\ options.onRetry => retries = lookups - 1
                  /\ slept = sleeps * (IF delayMs > 0 THEN delayMs ELSE 0)

\* C4 as stated: the counts, and total sleep <= (maxAttempts-1)*delayMs.
C4_Original ==
  /\ RetryCounts
  /\ (PollEnded /\ options.maxAttemptsGiven)
       => slept <= (options.maxAttempts - 1) * delayMs

\* C4 amended: the counts hold as stated; total sleep is at most
\* (maxAttempts-1)*delayMs when maxAttempts >= 1 and delayMs >= 0 (a run with
\* maxAttempts <= 0 makes one lookup and does not sleep, a negative delayMs
\* sleeps 0 ms), and with create-parent's settings (500 ms, 21 attempts) it
\* is at most 10000 ms.
C4_RetryAndSleep ==
  /\ RetryCounts
  /\ (PollEnded /\ options.maxAttemptsGiven /\ options.maxAttempts >= 1 /\ delayMs >= 0)
       => slept <= (options.maxAttempts - 1) * delayMs
  /\ (PollEnded /\ options.maxAttemptsGiven /\ options.maxAttempts <= 0)
       => slept = 0
  /\ linearSyncMaxAttempts = 21
  /\ (PollEnded /\ CreateParentOptions) => slept <= linearSyncMaxWaitMs

C4_Witness ==
  /\ pollStatus = "returned" /\ issueId = "" /\ CreateParentOptions
  /\ lookups = 21 /\ retries = 20 /\ sleeps = 20 /\ slept = 10000

\* C5 as stated: a lookup error is handled like "not found yet", the poller
\* goes on (or returns null) and the command is not terminated by it.
C5_Original ==
  (throwAt > 0 /\ lookups >= throwAt) => pollStatus \in {"running", "returned"}

\* C5 amended: a lookup error is not caught by the poller: it rejects at that
\* attempt and makes no further lookup; in create-parent the rejection reaches
\* the catch of cli.ts, the process exits with status 1, and no Linear write,
\* no updateIssueMetadata call and no branch creation happen.
C5_LookupErrorAborts ==
  (throwAt > 0 /\ lookups >= throwAt)
  => /\ pollStatus = "threw"
     /\ lookups = throwAt
     /\ pc \in {"threw", "exited"}
     /\ pc = "exited" => exitCode = 1
     /\ exitCode # 0
     /\ writes = <<>> /\ calls = <<>> /\ ~branchCreated

C5_Witness ==
  /\ pollStatus = "threw" /\ throwAt = 2 /\ lookups = 2
  /\ pc = "exited" /\ exitCode = 1 /\ ghIssues = 1

(***************************************************************************)
(* Properties of create-parent and of the metadata reconciliation          *)
(***************************************************************************)
\* the poller returned "not found" to createParentIssue
LinearIssueNotFound == pollStatus = "returned" /\ issueId = ""

\* the poller returned the Linear issue to createParentIssue
LinearIssueFound == pollStatus = "returned" /\ issueId # ""

\* the steps after the label step and after the metadata call
AfterLabels == pc \in {"updateMetadata", "createBranch", "done"}
AfterMetadata == pc \in {"createBranch", "done"}

IssueUpdates == {i \in 1..Len(writes) : writes[i].op = "issueUpdate"}
LabelCreates == {i \in 1..Len(writes) : writes[i].op = "issueLabelCreate"}
LabelWrites == {i \in IssueUpdates : writes[i].input.hasLabelIds}
CallsFrom(who) == {i \in 1..Len(calls) : calls[i].from = who}

\* C6: when the poller returns "not found" to createParentIssue, no Linear
\* write is sent, updateIssueMetadata and findOrCreateLabel are never called,
\* no branch is created, and the command ends normally (exit status 0, not 1).
C6_NotFoundDegrades ==
  LinearIssueNotFound
  => /\ writes = <<>> /\ calls = <<>> /\ foclLog = <<>> /\ silStatus = "idle"
     /\ ~branchCreated
     /\ pc \in {"afterPoll", "done"}
     /\ exitCode # 1
     /\ pc = "done" => exitCode = 0

C6_Witness ==
  /\ LinearIssueNotFound /\ lookups = linearSyncMaxAttempts
  /\ pc = "done" /\ exitCode = 0 /\ ghIssues = 1
  /\ details.dueDate # "" /\ details.labels # <<>>

\* the label step failed: setIssueLabels returned [] or a findOrCreateLabel returned null
LabelStepFailed ==
  /\ silStatus = "returned"
  /\ silResult = <<>> \/ \E i \in 1..Len(foclLog) : foclLog[i].ret = 0

\* C7: with the Linear issue resolved, when the label step failed the command
\* is not aborted and, once past the metadata step, has called
\* updateIssueMetadata with the requested due date as its last Linear call;
\* if that call itself met no failure the issue carries the due date.
C7_DueDateAfterLabelFailure ==
  (LinearIssueFound /\ LabelStepFailed /\ details.dueDate # "")
  => /\ AfterLabels
     /\ AfterMetadata
          => /\ calls # <<>>
             /\ calls[Len(calls)].from = "createParentIssue"
             /\ calls[Len(calls)].dueDate = details.dueDate
             /\ (faults \cap {"metadataUpdate", "projectRejected"} = {})
                  => issue.dueDate = details.dueDate

C7_Witness ==
  /\ pc = "done" /\ LinearIssueFound /\ LabelStepFailed
  /\ "labelCreate" \in faults /\ silResult = <<>>
  /\ details.dueDate = "2025-12-31" /\ issue.dueDate = "2025-12-31"
  /\ issue.labelIds = <<>>

LabelFaults == {"teamLookup", "labelList", "labelCreate", "labelUpdate"}

\* C8 as stated: every field has its own write, and when the write of one
\* field fails (here: only the project is rejected) the other requested
\* fields are still set.
C8_Original ==
  /\ \A i \in IssueUpdates :
       ~(writes[i].input.hasDueDate /\ writes[i].input.hasProjectId)
  /\ (pc = "done" /\ LinearIssueFound /\ faults \subseteq {"projectRejected"})
       => /\ details.dueDate # "" => issue.dueDate = details.dueDate
          /\ details.labels # <<>> => Len(issue.labelIds) = Len(details.labels)

\* C8 amended: the labels are written by an issueUpdate of their own, the due
\* date and the project together by one other issueUpdate.  A failure of the
\* label step does not prevent due date and project from being set, and a
\* failure of the due-date/project write does not undo the labels; but when
\* that combined write fails (for example the project is rejected) neither
\* the project nor the due date is set.
C8_LabelsApartDueDateWithProject ==
  /\ \A i \in LabelWrites :
       ~writes[i].input.hasDueDate /\ ~writes[i].input.hasProjectId
  /\ \A i \in CallsFrom("createParentIssue") :
       /\ calls[i].labelIds = <<>>
       /\ calls[i].dueDate = details.dueDate
       /\ calls[i].projectId = linearProjectId
  /\ Cardinality(CallsFrom("createParentIssue")) <= 1
  /\ (AfterMetadata /\ LinearIssueFound /\ faults \subseteq LabelFaults)
       => /\ details.dueDate # "" => issue.dueDate = details.dueDate
          /\ linearProjectId # "" => issue.projectId = linearProjectId
  /\ (AfterMetadata /\ LinearIssueFound /\ faults \subseteq {"metadataUpdate", "projectRejected"})
       => (details.labels # <<>> => Len(issue.labelIds) = Len(details.labels))
  /\ (AfterMetadata /\ LinearIssueFound /\ "projectRejected" \in faults)
       => issue.dueDate = "" /\ issue.projectId = ""

C8_Witness ==
  /\ pc = "done" /\ LinearIssueFound /\ faults = {"projectRejected"}
  /\ details.dueDate # "" /\ issue.dueDate = ""
  /\ linearProjectId \in RejectedProjects /\ issue.projectId = ""
  /\ Len(details.labels) = 2 /\ Len(issue.labelIds) = 2

\* C9: every findOrCreateLabel call is made for the issue's team; when the
\* team has a label whose name equals the requested one ignoring case it
\* returns the ID of such a label and sends nothing; when the team has none
\* it sends exactly one issueLabelCreate for that team and name, returning the
\* new label's ID if Linear created it and null if not; a create is sent only
\* when no label of the team matches.  (When the label listing itself fails
\* it returns null and sends nothing.)
C9_FindOrCreateLabel ==
  [][ Len(foclLog') > Len(foclLog) =>
        LET e == foclLog'[Len(foclLog')]
            labels == labelStore[e.teamId]
            Matching == {i \in 1..Len(labels) :
                           toLowerCase(labels[i].name) = toLowerCase(e.name)}
        IN /\ Len(foclLog') = Len(foclLog) + 1
           /\ e.teamId = issueTeam
           /\ (e.listed /\ Matching # {})
                => /\ \E i \in Matching : e.ret = labels[i].id
                   /\ writes' = writes
                   /\ labelStore' = labelStore
           /\ (e.listed /\ Matching = {})
                => /\ Len(writes') = Len(writes) + 1
                   /\ SubSeq(writes', 1, Len(writes)) = writes
                   /\ LET w == writes'[Len(writes')]
                      IN /\ w.op = "issueLabelCreate"
                         /\ w.teamId = e.teamId
                         /\ w.name = e.name
                         /\ w.applied
                              => /\ e.ret # 0
                                 /\ labelStore' =
                                      [labelStore EXCEPT ![e.teamId] =
                                         Append(@, [id |-> e.ret, name |-> e.name])]
                         /\ ~w.applied => e.ret = 0 /\ labelStore' = labelStore
           /\ ~e.listed => e.ret = 0 /\ writes' = writes /\ labelStore' = labelStore
           /\ writes' # writes => Matching = {}
    ]_vars

C9_Witness ==
  /\ pc = "done" /\ issueTeam = "T1"
  /\ details.labels = <<"Fix", "docs">>
  /\ Len(foclLog) = 2
  /\ foclLog[1].ret = 1 /\ foclLog[2].ret = 4
  /\ Cardinality(LabelCreates) = 1
  /\ writes[1].op = "issueLabelCreate" /\ writes[1].teamId = "T1" /\ writes[1].name = "docs"
  /\ labelStore["T1"] = <<Label(1, "FIX"), Label(4, "docs")>>
  /\ labelStore["T2"] = <<Label(2, "Bug"), Label(3, "docs")>>

\* the label IDs the findOrCreateLabel calls returned, in call order
RECURSIVE ResolvedFrom(_)
ResolvedFrom(i) ==
  IF i > Len(foclLog) THEN <<>>
  ELSE IF foclLog[i].ret # 0 THEN <<foclLog[i].ret>> \o ResolvedFrom(i + 1)
  ELSE ResolvedFrom(i + 1)

ResolvedLabelIds == ResolvedFrom(1)

\* C10: setIssueLabels calls updateIssueMetadata at most once and sends at most
\* one label-assigning issueUpdate; that write comes after findOrCreateLabel
\* has been called for every requested name (no create follows it), carries
\* exactly the IDs those calls returned, and is not sent when none was resolved.
C10_SingleLabelWrite ==
  /\ Cardinality(LabelWrites) <= 1
  /\ Cardinality(CallsFrom("setIssueLabels")) <= 1
  /\ \A i \in CallsFrom("setIssueLabels") :
       /\ Len(foclLog) = Len(details.labels)
       /\ calls[i].labelIds = ResolvedLabelIds
       /\ calls[i].labelIds # <<>>
  /\ \A i \in LabelWrites :
       /\ Len(foclLog) = Len(details.labels)
       /\ \A k \in 1..Len(details.labels) : foclLog[k].name = details.labels[k]
       /\ writes[i].input.labelIds = ResolvedLabelIds
       /\ ResolvedLabelIds # <<>>
       /\ \A j \in LabelCreates : j < i
       /\ CallsFrom("setIssueLabels") # {}
  /\ (silStatus = "returned" /\ ResolvedLabelIds = <<>>)
       => LabelWrites = {} /\ CallsFrom("setIssueLabels") = {}
  /\ silStatus = "running" => LabelWrites = {}

C10_Witness ==
  /\ pc = "done" /\ Len(details.labels) = 2
  /\ Cardinality(LabelWrites) = 1 /\ Cardinality(LabelCreates) = 1
  /\ Len(ResolvedLabelIds) = 2
  /\ silResult = ResolvedLabelIds
  /\ issue.labelIds = ResolvedLabelIds

(***************************************************************************)
(* Properties of the project-item lookup                                   *)
(***************************************************************************)
\* attempt a reads every page without a failure and the item is there
AttemptFinds(a) == itemFrom > 0 /\ a >= itemFrom /\ a \notin failAttempts

\* the attempts of this call that find the item
FindingAttempts == {a \in 1 .. maxRetries : AttemptFinds(a)}

\* number of attempts the call has to make
ExpectedAttempts ==
  IF FindingAttempts = {} THEN maxRetries
  ELSE CHOOSE a \in FindingAttempts : \A b \in FindingAttempts : a <= b

\* C11: getProjectItemId makes at most maxRetries attempts and returns the item ID
\* at the first attempt that finds the issue; after failed attempt k < maxRetries
\* (item missing or query threw) it waits k * 1000 ms; it does not wait after the
\* last attempt and returns null after maxRetries failed attempts; it always returns.
C11_State ==
  /\ pc # "threw"
  /\ gpStatus # "idle" =>
        /\ Len(gpOutcomes) <= maxRetries
        /\ Len(gpWaits) <= Len(gpOutcomes)
        /\ \A k \in 1 .. Len(gpWaits) :
              gpWaits[k] = k * WaitUnitMs /\ gpOutcomes[k] \in {"missing", "threw"}
  /\ gpStatus = "returned" =>
        /\ Len(gpOutcomes) = ExpectedAttempts
        /\ Len(gpWaits) = Max(Len(gpOutcomes) - 1, 0)
        /\ IF FindingAttempts # {}
             THEN /\ itemId = IssueItem.id
                  /\ gpOutcomes[Len(gpOutcomes)] = "found"
             ELSE /\ itemId = 0
                  /\ \A k \in 1 .. Len(gpOutcomes) : gpOutcomes[k] # "found"

C11_RetryLinearBackoff == []C11_State /\ (gpStatus = "running" ~> gpStatus = "returned")

\* a call that failed twice (once by a thrown query), waited 1000 then 2000 ms and
\* found the item at the third attempt
C11_Witness ==
  /\ cmd = "getProjectItemId"
  /\ gpStatus = "returned"
  /\ gpOutcomes = <<"threw", "missing", "found">>
  /\ gpWaits = <<WaitUnitMs, 2 * WaitUnitMs>>
  /\ itemId # 0

\* a call that gave up: maxRetries failed attempts, null returned, no wait after the last
C11_WitnessGaveUp ==
  /\ gpStatus = "returned"
  /\ maxRetries = DefaultMaxRetries
  /\ Len(gpOutcomes) = maxRetries
  /\ itemId = 0

\* the page queries issued in attempt a, in order
QueriesOf(a) == SelectSeq(gpQueries, LAMBDA q : q[1] = a)

\* every page of the project, first to last
AllPages(a) == [p \in 1 .. projPages |-> <<a, p>>]

\* C12: within one attempt getProjectItemId follows the cursor through every page of
\* project items until the API reports no next page before it decides, so the item is
\* found whichever page it is on, the last one included.
C12_AllPagesBeforeDeciding ==
  /\ pc = "gpFind" =>
        /\ QueriesOf(gpAttempt) = AllPages(gpAttempt)
        /\ allItems = UNION {PageNodes(gpAttempt, p) : p \in 1 .. projPages}
        /\ ~hasNextPage
  /\ \A a \in 1 .. Len(gpOutcomes) :
        /\ gpOutcomes[a] \in {"found", "missing"} => QueriesOf(a) = AllPages(a)
        /\ gpOutcomes[a] = "missing" => ~(itemFrom > 0 /\ a >= itemFrom)
        /\ gpOutcomes[a] = "found" => itemId = IssueItem.id

\* the item sits on the last of several pages and the first attempt returns it
C12_Witness ==
  /\ gpStatus = "returned"
  /\ projPages >= 2
  /\ itemPage = projPages
  /\ gpOutcomes = <<"found">>
  /\ itemId = IssueItem.id
  /\ Len(gpQueries) = projPages

(***************************************************************************)
(* Properties of the project date-field setter                             *)
(***************************************************************************)
\* the dates the caller asked for
RequestedFields ==
  (IF targetDate # "" THEN {"Target"} ELSE {}) \cup (IF startDate # "" THEN {"Start"} ELSE {})

\* the steps logged for one field
StepsOf(field) == SelectSeq(dateLog, LAMBDA e : e.field = field)

\* updateProjectV2ItemFieldValue mutations sent for one field
DateWrites(field) ==
  SelectSeq(dateLog, LAMBDA e : e.field = field /\ e.step \in {"written", "writeFailed"})

\* project and item were both resolved
Resolved == ghProjectId # "" /\ gpStatus = "returned" /\ itemId # 0

C13_WitnessUnresolved ==
  /\ spdfStatus = "returned"
  /\ ghProjectId # "" /\ itemId = 0
  /\ Len(gpOutcomes) = DefaultMaxRetries
  /\ dateLog = <<>>
  /\ pc = "done" /\ exitCode = 0

(***************************************************************************)
(* Properties of the commands' preconditions and writes                    *)
(***************************************************************************)
\* the run has written nothing outside the process
NoExternalWrite ==
  /\ ghIssues = 0
  /\ dateLog = <<>>
  /\ writes = <<>>
  /\ calls = <<>>
  /\ ~branchCreated
  /\ commits = <<>>

Stopped == pc = "exited" /\ exitCode = 1

\* C14: a missing precondition stops the command with exit status 1 before any
\* external write: createParentIssue creates no GitHub issue, Linear write or branch
\* when LINEAR_API_KEY is absent or the branch has unpushed commits, and commitFirst
\* creates no commit when LINEAR_API_KEY is absent or the branch name cannot be read.
C14_PreconditionStops ==
  /\ (cmd \in {"createParentIssue", "commitFirst"} /\ ~apiKeySet) =>
        (pc = "start" \/ Stopped) /\ NoExternalWrite
  /\ (cmd = "createParentIssue" /\ hasUnpushed = "yes") => Stopped /\ NoExternalWrite
  /\ (cmd = "commitFirst" /\ branchRead = "failed") => Stopped /\ NoExternalWrite

\* create-parent stopped on unpushed commits
C14_Witness ==
  /\ cmd = "createParentIssue"
  /\ apiKeySet
  /\ hasUnpushed = "yes"
  /\ Stopped
  /\ NoExternalWrite

\* commit-first stopped because git could not tell the branch name
C14_WitnessCommitFirst ==
  /\ cmd = "commitFirst"
  /\ branchRead = "failed"
  /\ Stopped
  /\ commits = <<>>

\* label-creation mutations sent for one label name of one team
CreatesOf(teamId, name) ==
  SelectSeq(writes, LAMBDA w : w.op = "issueLabelCreate" /\ w.teamId = teamId /\ w.name = name)

\* issueUpdate mutations that carry one field of the Linear issue
UpdatesOf(field) ==
  SelectSeq(writes, LAMBDA w :
    /\ w.op = "issueUpdate"
    /\ \/ field = "dueDate" /\ w.input.hasDueDate
       \/ field = "projectId" /\ w.input.hasProjectId
       \/ field = "labelIds" /\ w.input.hasLabelIds)

\* C15: in one run every external write (GitHub issue creation, sub-issue linking,
\* creation of a given Linear label, the Linear update of a given field, each project
\* date-field mutation, branch creation, the commit) is attempted at most once; only
\* the Linear sync lookup and the project-item lookup are repeated.
C15_WritesAtMostOnce ==
  /\ ghIssues <= 1
  /\ subLinks <= 1
  /\ gitBranches <= 1
  /\ Len(commits) <= 1
  /\ \A i, j \in DOMAIN writes :
       i < j =>
         /\ ~(/\ writes[i].op = "issueLabelCreate"
              /\ writes[j].op = "issueLabelCreate"
              /\ writes[i].teamId = writes[j].teamId
              /\ writes[i].name = writes[j].name)
         /\ ~(/\ writes[i].op = "issueUpdate"
              /\ writes[j].op = "issueUpdate"
              /\ \/ writes[i].input.hasDueDate /\ writes[j].input.hasDueDate
                 \/ writes[i].input.hasProjectId /\ writes[j].input.hasProjectId
                 \/ writes[i].input.hasLabelIds /\ writes[j].input.hasLabelIds)
  /\ \A i, j \in DOMAIN dateLog :
       i < j =>
         ~(/\ dateLog[i].field = dateLog[j].field
           /\ dateLog[i].step \in {"written", "writeFailed"}
           /\ dateLog[j].step \in {"written", "writeFailed"})

\* a create-parent run that repeated both lookups and made each kind of write once
C15_Witness ==
  /\ cmd = "createParentIssue"
  /\ pc = "done"
  /\ Len(gpOutcomes) > 1
  /\ lookups > 1
  /\ ghIssues = 1
  /\ \A f \in DateFields : Len(DateWrites(f)) = 1
  /\ \E t \in Teams, n \in LabelNames : Len(CreatesOf(t, n)) = 1
  /\ \A f \in {"dueDate", "projectId", "labelIds"} : Len(UpdatesOf(f)) = 1
  /\ gitBranches = 1

(***************************************************************************)
(* C16 - C19: the branch-name functions and their use in commitFirst       *)
(***************************************************************************)
\* the part of a name before its first '/', the whole name when it has none
SegmentBeforeSlash(b) ==
  LET k == CHOOSE n \in 0 .. Len(b) :
             /\ \A i \in 1 .. n : b[i] # "/"
             /\ n = Len(b) \/ b[n + 1] = "/"
  IN SubSeq(b, 1, k)

\* the commit type a branch name declares, <<>> when it declares none
DeclaredPrefix(b) ==
  IF ToLowerCase(SegmentBeforeSlash(b)) \in VALID_BRANCH_PREFIXES
    THEN ToLowerCase(SegmentBeforeSlash(b))
    ELSE <<>>

\* commit-first has passed the commit-type step
PastPrompt == cmd = "commitFirst" /\ pc \in {"cfTitle", "cfNumber", "cfCommit", "done"}

\* C16: extractBranchPrefix returns the segment before the first '/' only if it is one
\* of the seven commit types and no value otherwise, and commitFirst then asks the
\* user for the commit type instead of defaulting to 'feat'.
C16_PrefixOrPrompt ==
  /\ (cmd = "extractBranchPrefix" /\ pc = "done") => output = DeclaredPrefix(args.branchName)
  /\ PastPrompt =>
       IF DeclaredPrefix(cfBranchName) = <<>>
         THEN prompts = 1
         ELSE prompts = 0 /\ cfPrefix = DeclaredPrefix(cfBranchName)

\* the claim of C16 for the version of branch-utils that returns string | null
C16_OwnerVersion == branchUtils = "owner" => C16_PrefixOrPrompt

\* the null-returning version asked for the commit type of a branch with a bad prefix
C16_WitnessPrompted ==
  /\ branchUtils = "owner"
  /\ PastPrompt
  /\ SegmentBeforeSlash(cfBranchName) = <<"b", "o", "g", "u", "s">>
  /\ prompts = 1

\* the 'feat'-returning version went on without asking
C16_WitnessDefaulted ==
  /\ branchUtils = "prefix"
  /\ PastPrompt
  /\ SegmentBeforeSlash(cfBranchName) = <<"b", "o", "g", "u", "s">>
  /\ prompts = 0
  /\ cfPrefix = feat

\* s matches ^[a-z0-9]+(-[a-z0-9]+)*$
MatchesBranchPattern(s) ==
  /\ s # <<>>
  /\ \A i \in 1 .. Len(s) : s[i] \in Lower \cup Digit \cup {"-"}
  /\ s[1] # "-"
  /\ s[Len(s)] # "-"
  /\ \A i \in 1 .. Len(s) - 1 : ~(s[i] = "-" /\ s[i + 1] = "-")

\* the words of a title (its letters and digits, lower-cased; blanks and hyphens
\* separate words, every other character is dropped) joined by single hyphens,
\* read off in one pass from position i on
RECURSIVE JoinedWordsFrom(_, _, _, _)
JoinedWordsFrom(title, i, separated, started) ==
  IF i > Len(title) THEN <<>>
  ELSE IF LowerChar(title[i]) \in Lower \cup Digit
    THEN (IF separated /\ started THEN <<"-">> ELSE <<>>)
           \o <<LowerChar(title[i])>> \o JoinedWordsFrom(title, i + 1, FALSE, TRUE)
  ELSE IF title[i] \in Whitespace \cup {"-"}
    THEN JoinedWordsFrom(title, i + 1, TRUE, started)
  ELSE JoinedWordsFrom(title, i + 1, separated, started)

JoinedWords(title) == JoinedWordsFrom(title, 1, FALSE, FALSE)

\* the first 50 characters of s, without the hyphen when the 50th is one
CutAtLimit(s) ==
  IF s[MaxSanitizedLength] = "-"
    THEN SubSeq(s, 1, MaxSanitizedLength - 1)
    ELSE SubSeq(s, 1, MaxSanitizedLength)

\* the joined words of a title, cut at the limit when they are longer
ExpectedSanitized(title) ==
  IF Len(JoinedWords(title)) > MaxSanitizedLength
    THEN CutAtLimit(JoinedWords(title))
    ELSE JoinedWords(title)

HelloWorld == <<"H", "e", "l", "l", "o", " ", " ", " ", "W", "o", "r", "l", "d", "!", "!">>

\* C17: for every title sanitizeBranchName(title) is empty or matches
\* ^[a-z0-9]+(-[a-z0-9]+)*$ and is at most 50 characters long; a cleaned title of more
\* than 50 characters gives its first 50 characters without a hyphen left at the cut
\* (60 'a' give 50 'a', "Hello   World!!" gives "hello-world").
C17_SanitizedShape ==
  (cmd = "sanitizeBranchName" /\ pc = "done") =>
    /\ output = <<>> \/ MatchesBranchPattern(output)
    /\ Len(output) <= MaxSanitizedLength
    /\ output = ExpectedSanitized(args.title)
    /\ args.title = Repeat("a", MaxSanitizedLength + 10) => output = Repeat("a", MaxSanitizedLength)
    /\ args.title = HelloWorld => output = <<"h", "e", "l", "l", "o", "-", "w", "o", "r", "l", "d">>

\* a title whose cleaned form has its hyphen exactly at the 50th character
C17_Witness ==
  /\ cmd = "sanitizeBranchName"
  /\ pc = "done"
  /\ Len(JoinedWords(args.title)) > MaxSanitizedLength
  /\ JoinedWords(args.title)[MaxSanitizedLength] = "-"
  /\ output = Repeat("a", MaxSanitizedLength - 1)

\* the letters, digits and hyphens of an owner name, lower-cased, as hyphen-joined words
\* (a blank is dropped like any other character; only hyphens separate)
RECURSIVE OwnerWordsFrom(_, _, _, _)
OwnerWordsFrom(owner, i, separated, started) ==
  IF i > Len(owner) THEN <<>>
  ELSE IF LowerChar(owner[i]) \in Lower \cup Digit
    THEN (IF separated /\ started THEN <<"-">> ELSE <<>>)
           \o <<LowerChar(owner[i])>> \o OwnerWordsFrom(owner, i + 1, FALSE, TRUE)
  ELSE IF owner[i] = "-"
    THEN OwnerWordsFrom(owner, i + 1, TRUE, started)
  ELSE OwnerWordsFrom(owner, i + 1, separated, started)

\* {o}: the sanitized owner, or 'user' when nothing of the owner is left
ExpectedOwner(owner) ==
  IF OwnerWordsFrom(owner, 1, FALSE, FALSE) = <<>> THEN user
  ELSE OwnerWordsFrom(owner, 1, FALSE, FALSE)

\* C18: generateBranchName(owner, linearId, title) is '{o}/{linearId}' when the sanitized
\* title is empty and '{o}/{linearId}-{sanitizedTitle}' otherwise, {o} being the
\* sanitized owner, or 'user' when the sanitized owner is empty.
C18_BranchNameComposition ==
  (cmd = "generateBranchName" /\ pc = "done") =>
    output = ExpectedOwner(args.owner) \o <<"/">> \o args.linearId
               \o (IF ExpectedSanitized(args.title) = <<>> THEN <<>>
                   ELSE <<"-">> \o ExpectedSanitized(args.title))

\* the claim of C18 for the version of branch-utils whose first parameter is the owner
C18_OwnerVersion == branchUtils = "owner" => C18_BranchNameComposition

\* the owner version fell back to 'user' and left the hyphen out for an empty title
C18_WitnessUserFallback ==
  /\ branchUtils = "owner"
  /\ cmd = "generateBranchName"
  /\ pc = "done"
  /\ args.owner = <<"!", "-">>
  /\ args.title = <<"!">>
  /\ output = user \o <<"/">> \o LEA123

\* the prefix version put the owner into the name as it was given
C18_WitnessRawOwner ==
  /\ branchUtils = "prefix"
  /\ cmd = "generateBranchName"
  /\ pc = "done"
  /\ args.owner = <<"N", "e", "g", "o", "t", "h">>
  /\ args.title = <<>>
  /\ output = <<"N", "e", "g", "o", "t", "h", "/">> \o LEA123

\* x is one or more upper-case letters, a hyphen, one or more digits
HasIdForm(x) ==
  \E k \in 1 .. Len(x) - 2 :
    /\ \A i \in 1 .. k : x[i] \in Upper
    /\ x[k + 1] = "-"
    /\ \A i \in k + 2 .. Len(x) : x[i] \in Digit

\* the substrings of b of that form, as pairs of their first and last position
IdSubstrings(b) ==
  {ij \in (1 .. Len(b)) \X (1 .. Len(b)) : ij[1] < ij[2] /\ HasIdForm(SubSeq(b, ij[1], ij[2]))}

\* the first of them: the leftmost start and, from there, as far as the form reaches
FirstIdSubstring(b) ==
  IF IdSubstrings(b) = {} THEN <<>>
  ELSE LET first == CHOOSE ij \in IdSubstrings(b) :
                      \A other \in IdSubstrings(b) :
                        \/ ij[1] < other[1]
                        \/ ij[1] = other[1] /\ ij[2] >= other[2]
       IN SubSeq(b, first[1], first[2])

FeatLEA123Title == feat \o <<"/">> \o LEA123 \o <<"-", "t", "i", "t", "l", "e">>
NoIdHere == <<"n", "o", "-", "i", "d", "-", "h", "e", "r", "e">>

\* C19: extractLinearIssueId returns the first substring made of upper-case letters, a
\* hyphen and digits ('LEA-123' from 'feat/LEA-123-title'), and no value when the name is
\* empty or has no such substring ('no-id-here'); commitFirst exits with status 1
\* without committing when no ID is extracted.
C19_FirstIssueId ==
  /\ (cmd = "extractLinearIssueId" /\ pc = "done") =>
       /\ output = FirstIdSubstring(args.branchName)
       /\ args.branchName = FeatLEA123Title => output = LEA123
       /\ args.branchName \in {<<>>, NoIdHere} => output = <<>>
  /\ (cmd = "commitFirst" /\ branchRead = "ok" /\ pc # "cfExtract") =>
       IF FirstIdSubstring(cfBranchName) = <<>>
         THEN pc = "exited" /\ exitCode = 1 /\ commits = <<>>
         ELSE cfLinearId = FirstIdSubstring(cfBranchName)

\* an ID found in the middle of a name, after a first attempt that fails at "AB-C"
C19_Witness ==
  /\ cmd = "extractLinearIssueId"
  /\ pc = "done"
  /\ args.branchName = <<"A", "B", "-", "C", "D", "-", "7", "5">> \o <<"-", "X", "-", "9">>
  /\ output = <<"C", "D", "-", "7", "5">>

\* commit-first stopped on a branch that names no issue
C19_WitnessNoId ==
  /\ cmd = "commitFirst"
  /\ branchRead = "ok"
  /\ cfBranchName = feat \o <<"/">> \o NoIdHere
  /\ pc = "exited"
  /\ exitCode = 1
  /\ commits = <<>>

(***************************************************************************)
(* C20: LINEAR_API_KEY from the process environment                        *)
(***************************************************************************)
\* no .env in the working directory, its ancestors or the home directory
NoEnvFileAnywhere == homeEnv = "none" /\ \A d \in DOMAIN envFiles : envFiles[d] = "none"

\* the binary has left loadEnvFile, one way or the other
StartupOver == envLoad \in {"returned", "exited"}

\* C20: when LINEAR_API_KEY is in the process environment and no .env file exists in the
\* working directory, its ancestors or the home directory, startup does not exit with an
\* error: loadEnvFile returns and the command runs with that key.
C20_ShellKeySuffices ==
  (shellKey /\ NoEnvFileAnywhere /\ StartupOver) =>
    /\ envLoad = "returned"
    /\ cmd = "commitFirst"
    /\ apiKeySet
    /\ ~(pc = "exited" /\ branchRead = "pending")

\* the claim of C20 for the version of loadEnvFile that ends with config()
C20_LenientVersion == envUtils = "lenient" => C20_ShellKeySuffices

\* with the lenient version the command got past its own key check
C20_WitnessRuns ==
  /\ envUtils = "lenient"
  /\ shellKey
  /\ NoEnvFileAnywhere
  /\ CwdDepth = MaxDepth
  /\ envLoad = "returned"
  /\ cmd = "commitFirst"
  /\ pc = "cfBranch"

\* with the strict version the process exited in loadEnvFile although the key was exported
C20_WitnessExits ==
  /\ envUtils = "strict"
  /\ shellKey
  /\ apiKeySet
  /\ NoEnvFileAnywhere
  /\ envLoad = "exited"
  /\ exitCode = 1
  /\ cmd = "lgcmf"

(***************************************************************************)
(* C21: which .env file loadEnvFile reads                                  *)
(***************************************************************************)
\* the directories from depth lowest down to the working directory that have a .env
DirsWithEnv(lowest) == {d \in lowest .. CwdDepth : existsSync(envFiles[d])}

\* the nearest of them to the working directory
Nearest(dirs) == CHOOSE d \in dirs : \A e \in dirs : e <= d

\* the one file the search order names when the path is searched down to depth lowest
ExpectedLoad(lowest) ==
  IF DirsWithEnv(lowest) # {} THEN <<DirEnv(Nearest(DirsWithEnv(lowest)))>>
  ELSE IF existsSync(homeEnv) THEN <<HomeEnv>>
  ELSE <<>>

\* C21: loadEnvFile loads the .env of the nearest directory on the path from the working
\* directory up to and including the filesystem root, uses the home directory's .env only
\* when no directory on that path has one, and loads at most one file per run.
C21_NearestEnvFile ==
  (cmd = "loadEnvFile" /\ envLoad = "returned") =>
    /\ Len(loadedFiles) <= 1
    /\ loadedFiles = ExpectedLoad(0)

\* the same search order with the root left out of the path, for a working directory
\* below the root
C21_BelowRoot ==
  (cmd = "loadEnvFile" /\ envLoad = "returned" /\ CwdDepth > 0) =>
    /\ Len(loadedFiles) <= 1
    /\ loadedFiles = ExpectedLoad(1)

\* the nearer of two .env files on the path was read
C21_WitnessNearest ==
  /\ cmd = "loadEnvFile"
  /\ envLoad = "returned"
  /\ CwdDepth = 2
  /\ existsSync(envFiles[1])
  /\ existsSync(envFiles[2])
  /\ loadedFiles = <<DirEnv(2)>>

\* the .env of the root was passed over for the one of the home directory
C21_WitnessRootSkipped ==
  /\ cmd = "loadEnvFile"
  /\ envLoad = "returned"
  /\ CwdDepth > 0
  /\ envFiles[0] = "key"
  /\ loadedFiles = <<HomeEnv>>

(***************************************************************************)
(* C22: gh-pr-safe                                                         *)
(***************************************************************************)
\* the script has ended, by exec of gh or by exit
PrSafeEnded == cmd = "gh-pr-safe" /\ pc \in {"done", "exited"}

\* the warnings shown about one of the two branches
PromptsAbout(about) == {i \in DOMAIN prLog : prLog[i].about = about}

\* what the script does about the commits of the current branch: no warning when it has
\* no remote branch or is at most one commit ahead, else one warning that lists the
\* commits, and no PR after an answer other than y or Y
BranchRule ==
  IF prEnv.branchRemote /\ prEnv.branchAhead >= 2
    THEN /\ \E i \in DOMAIN prLog :
              /\ PromptsAbout("branch") = {i}
              /\ prLog[i].listed = prEnv.branchAhead
              /\ IF Declined(prLog[i].reply)
                   THEN pc = "exited" /\ exitCode = 1 /\ prCreated = 0
                   ELSE prCreated = 1
    ELSE PromptsAbout("branch") = {} /\ prCreated = 1

C22_WitnessOneAhead ==
  /\ PrSafeEnded
  /\ prEnv.baseRemote
  /\ prEnv.mainAhead = 0
  /\ prEnv.branchRemote
  /\ prEnv.branchAhead = 1
  /\ prLog = <<>>
  /\ prCreated = 1

(***************************************************************************)
(* One run of create-parent taken alone: every call of createParentIssue   *)
(* (create-parent.ts:54-143) and of the helpers it awaits.                 *)
(***************************************************************************)
CreateParentNext ==
  \/ CPCheckApiKey
  \/ CPCheckUnpushed
  \/ CPPromptIssueDetails
  \/ CPCreateIssue
  \/ CPSetProjectDateFields
  \/ SPDFProject
  \/ GPAttempt
  \/ GPQuery
  \/ GPFind
  \/ GPCatch
  \/ GPWait
  \/ SPDFItem
  \/ SPDFTarget
  \/ SPDFStart
  \/ CPAfterDateFields
  \/ PollLookup
  \/ PollCheck
  \/ PollOnRetry
  \/ PollSleep
  \/ CPAfterPoll
  \/ CPFindProject
  \/ SetIssueLabelsTeam
  \/ SetIssueLabelsResolve
  \/ SetIssueLabelsUpdate
  \/ CPUpdateMetadata
  \/ CPCreateBranch
  \/ CliCatch

\* the runs in which Linear never syncs the issue or syncs it at the last
\* attempt, and no lookup throws or the first one does
SequentialInit ==
  /\ CreateParentInit
  /\ foundAt \in {0, linearSyncMaxAttempts}
  /\ throwAt \in {0, 1}
  /\ issueTeam = "T1"

CreateParentSpec == SequentialInit /\ [][CreateParentNext]_vars

\* the steps of a run, by name, and whether a step can run in the current state
StepNames ==
  {"CPCheckApiKey", "CPCheckUnpushed", "CPPromptIssueDetails", "CPCreateIssue",
   "CPSetProjectDateFields", "SPDFProject", "GPAttempt", "GPQuery", "GPFind", "GPCatch",
   "GPWait", "SPDFItem", "SPDFTarget", "SPDFStart", "CPAfterDateFields", "PollLookup",
   "PollCheck", "PollOnRetry", "PollSleep", "CPAfterPoll", "CPFindProject",
   "SetIssueLabelsTeam", "SetIssueLabelsResolve", "SetIssueLabelsUpdate",
   "CPUpdateMetadata", "CPCreateBranch", "CliCatch"}

CanRun(step) ==
  CASE step = "CPCheckApiKey" -> ENABLED CPCheckApiKey
    [] step = "CPCheckUnpushed" -> ENABLED CPCheckUnpushed
    [] step = "CPPromptIssueDetails" -> ENABLED CPPromptIssueDetails
    [] step = "CPCreateIssue" -> ENABLED CPCreateIssue
    [] step = "CPSetProjectDateFields" -> ENABLED CPSetProjectDateFields
    [] step = "SPDFProject" -> ENABLED SPDFProject
    [] step = "GPAttempt" -> ENABLED GPAttempt
    [] step = "GPQuery" -> ENABLED GPQuery
    [] step = "GPFind" -> ENABLED GPFind
    [] step = "GPCatch" -> ENABLED GPCatch
    [] step = "GPWait" -> ENABLED GPWait
    [] step = "SPDFItem" -> ENABLED SPDFItem
    [] step = "SPDFTarget" -> ENABLED SPDFTarget
    [] step = "SPDFStart" -> ENABLED SPDFStart
    [] step = "CPAfterDateFields" -> ENABLED CPAfterDateFields
    [] step = "PollLookup" -> ENABLED PollLookup
    [] step = "PollCheck" -> ENABLED PollCheck
    [] step = "PollOnRetry" -> ENABLED PollOnRetry
    [] step = "PollSleep" -> ENABLED PollSleep
    [] step = "CPAfterPoll" -> ENABLED CPAfterPoll
    [] step = "CPFindProject" -> ENABLED CPFindProject
    [] step = "SetIssueLabelsTeam" -> ENABLED SetIssueLabelsTeam
    [] step = "SetIssueLabelsResolve" -> ENABLED SetIssueLabelsResolve
    [] step = "SetIssueLabelsUpdate" -> ENABLED SetIssueLabelsUpdate
    [] step = "CPUpdateMetadata" -> ENABLED CPUpdateMetadata
    [] step = "CPCreateBranch" -> ENABLED CPCreateBranch
    [] OTHER -> ENABLED CliCatch

RunnableSteps == {step \in StepNames : CanRun(step)}

\* C23: execution is strictly sequential: in every state of a run at most one
\* step (one request to GitHub, Linear or git, or one continuation of an
\* awaited call) can run, so no two requests are outstanding together and
\* each call has returned before the next starts; while the poller's timer is
\* pending the only thing that can happen is the end of that sleep.
C23_StrictlySequential ==
  /\ Cardinality(RunnableSteps) <= 1
  /\ pc = "pollSleep" => RunnableSteps = {"PollSleep"}
  /\ pc \notin {"done", "exited"} => RunnableSteps # {}

\* the poller is asleep between two lookups, after a lookup that found nothing
C23_Witness ==
  /\ cmd = "createParentIssue"
  /\ pc = "pollSleep"
  /\ lookups >= 1
  /\ RunnableSteps = {"PollSleep"}

\* a request to Linear is the one step that can run, after GitHub's requests returned
C23_WitnessRequest ==
  /\ cmd = "createParentIssue"
  /\ RunnableSteps = {"SetIssueLabelsUpdate"}

(***************************************************************************)
(* The metadata patch of create-parent.ts:114-130 applied to one synced    *)
(* Linear issue, and applied a second time with the same inputs:           *)
(* setIssueLabels(details.labels), then                                    *)
(* updateIssueMetadata(details.dueDate, linearProjectId).                  *)
(***************************************************************************)
\* if (details.labels && details.labels.length > 0) setIssueLabels(...)
EnterLabelStep ==
  IF Len(details'.labels) > 0
    THEN /\ pc' = "silTeam"
         /\ labelIdx' = 1
         /\ labelIds' = <<>>
         /\ silStatus' = "running"
    ELSE /\ pc' = "updateMetadata"
         /\ UNCHANGED <<labelIdx, labelIds, silStatus>>

\* the first application: a due date, the selected labels and the resolved project
ApplyPatch ==
  /\ pc = "start"
  /\ cmd = "applyMetadataPatch"
  /\ \E d \in DetailValues, found \in LinearProjects \cup {""} :
       /\ d.startDate = ""
       /\ d.dueDate # ""
       /\ details' = d
       /\ linearProjectId' = found
  /\ patchRound' = 1
  /\ EnterLabelStep
  /\ UNCHANGED <<cmd, exitCode, pollVars, envPollVars, apiKeySet, githubProject, ghIssues,
                 projectDates, branchCreated, envLinearVars, linearVars, silResult, foclLog,
                 calls, envProjVars, lcVars, patchFirst, prVars, startupVars, gpVars, spdfVars, buVars,
                 cfVars, gitBranches, csiVars>>

\* the same labels, due date and project are applied once more
ApplyPatchAgain ==
  /\ pc = "createBranch"
  /\ cmd = "applyMetadataPatch"
  /\ patchRound = 1
  /\ patchRound' = 2
  /\ patchFirst' = [issue |-> issue, labelStore |-> labelStore, writes |-> Len(writes),
                    faults |-> faults]
  /\ UNCHANGED <<details, linearProjectId>>
  /\ EnterLabelStep
  /\ UNCHANGED <<cmd, exitCode, pollVars, envPollVars, apiKeySet, githubProject, ghIssues,
                 projectDates, branchCreated, envLinearVars, linearVars, silResult, foclLog,
                 calls, envProjVars, lcVars, prVars, startupVars, gpVars, spdfVars, buVars,
                 cfVars, gitBranches, csiVars>>

ApplyPatchEnd ==
  /\ pc = "createBranch"
  /\ cmd = "applyMetadataPatch"
  /\ patchRound = 2
  /\ pc' = "done"
  /\ exitCode' = 0
  /\ UNCHANGED <<cmd, extVars, pollVars, envPollVars, cpVars, envLinearVars, linearVars,
                 silVars, calls>>

MetadataPatchInit ==
  /\ Start("applyMetadataPatch")
  /\ apiKeySet = TRUE
  /\ EnvLoaded
  /\ foundAt = 1
  /\ throwAt = 0
  /\ issueTeam = "T1"
  /\ labelStore \in InitialLabelStores
  /\ IdleProject
  /\ NoBranchUtilsCall

MetadataPatchNext ==
  \/ ApplyPatch
  \/ SetIssueLabelsTeam
  \/ SetIssueLabelsResolve
  \/ SetIssueLabelsUpdate
  \/ CPUpdateMetadata
  \/ ApplyPatchAgain
  \/ ApplyPatchEnd

MetadataPatchSpec == MetadataPatchInit /\ [][MetadataPatchNext]_vars

\* the writes of the first and of the second application
FirstWrites == 1 .. (IF patchRound = 2 THEN patchFirst.writes ELSE Len(writes))
SecondWrites == IF patchRound = 2 THEN (patchFirst.writes + 1) .. Len(writes) ELSE {}

\* at most one issueUpdate among the given writes carries each field
EachFieldOnce(indices) ==
  \A i, j \in indices :
    (i < j /\ writes[i].op = "issueUpdate" /\ writes[j].op = "issueUpdate") =>
      /\ ~(writes[i].input.hasDueDate /\ writes[j].input.hasDueDate)
      /\ ~(writes[i].input.hasProjectId /\ writes[j].input.hasProjectId)
      /\ ~(writes[i].input.hasLabelIds /\ writes[j].input.hasLabelIds)

MaxIssues == 3

\* html_url of a GitHub issue: the repository's issues path and the digits
\* of the issue number
IssueUrl(repo, digits) == <<repo>> \o digits

GitHubUrls ==
  { IssueUrl("https://github.com/o/r/issues/", <<"1">>),
    IssueUrl("https://github.com/o/r/issues/", <<"1", "2">>),
    IssueUrl("https://github.com/o/r/issues/", <<"2">>),
    IssueUrl("https://github.com/o/r2/issues/", <<"1">>) }

LinearIssueIds == <<"LIN-1", "LIN-2", "LIN-3", "LIN-4", "LIN-5">>

\* workspaces: each Linear issue was synced from one GitHub issue and carries
\* its URL as attachment; no GitHub issue is synced twice
Workspaces ==
  { [i \in DOMAIN q |-> [id |-> LinearIssueIds[i], url |-> q[i]]] :
      q \in { r \in SeqsUpTo(GitHubUrls, MaxIssues) : NoRepeat(r) } }

\* Linear's string comparator 'contains': sub occurs in str
Contains(str, sub) ==
  \E k \in 0 .. Len(str) - Len(sub) : SubSeq(str, k + 1, k + Len(sub)) = sub

\* variant: the filter compares the whole URL (comparator 'eq')
UrlMatches_Eq(url, sub) == url = sub

\* filter: { attachments: { url: { contains: githubUrl } } }
UrlMatches(url, sub) == Contains(url, sub)

\* issues.nodes for the filter, in the workspace's order
RECURSIVE IssueNodesFrom(_, _)
IssueNodesFrom(url, i) ==
  IF i > Len(linearIssues) THEN <<>>
  ELSE (IF UrlMatches(linearIssues[i].url, url) THEN <<linearIssues[i]>> ELSE <<>>)
       \o IssueNodesFrom(url, i + 1)

IssueNodes(url) == IssueNodesFrom(url, 1)

\* return issues.nodes[0]?.id || null
FirstNodeId(url) == IF IssueNodes(url) = <<>> THEN "" ELSE IssueNodes(url)[1].id

\* a direct call of findIssueByGitHubUrl(githubUrl)
FindIssueByGitHubUrl ==
  /\ pc = "start"
  /\ cmd = "findIssueByGitHubUrl"
  /\ lookups' = Bump(lookups)
  /\ issueId' = FirstNodeId(githubUrl)
  /\ pc' = "done"
  /\ UNCHANGED <<cmd, extVars, exitCode, options, attempt, retries, sleeps, slept, pollStatus,
                 envPollVars, cpVars, envLinearVars, linearVars, silVars, calls>>

FindIssueInit ==
  /\ Start("findIssueByGitHubUrl")
  /\ linearIssues \in Workspaces
  /\ githubUrl \in GitHubUrls
  /\ apiKeySet = TRUE
  /\ envUtils = "lenient"
  /\ shellKey = apiKeySet
  /\ envFiles = [d \in 0 .. 0 |-> "none"]
  /\ homeEnv = "none"
  /\ prEnv = NoPrEnv
  /\ IdleLinear
  /\ IdleProject
  /\ NoBranchUtilsCall

FindIssueNext == FindIssueByGitHubUrl

FindIssueSpec == FindIssueInit /\ [][FindIssueNext]_vars

\* the Linear issues synced from exactly the GitHub issue of the URL
SyncedFrom(url) == { i \in DOMAIN linearIssues : linearIssues[i].url = url }

\* C25: the ID returned by findIssueByGitHubUrl for URL U belongs to a Linear
\* issue synced from exactly that GitHub issue, never to one whose URL only
\* contains U as a prefix, also when several Linear issues match the filter.
C25_ExactIssue ==
  (cmd = "findIssueByGitHubUrl" /\ pc = "done" /\ issueId # "") =>
    \E i \in SyncedFrom(githubUrl) : linearIssues[i].id = issueId

\* what the lookup guarantees: the returned issue's URL contains U, and an
\* issue is returned whenever one is synced from U
C25_ContainsOnly ==
  (cmd = "findIssueByGitHubUrl" /\ pc = "done") =>
    /\ issueId # "" =>
         \E i \in DOMAIN linearIssues :
           linearIssues[i].id = issueId /\ Contains(linearIssues[i].url, githubUrl)
    /\ SyncedFrom(githubUrl) # {} => issueId # ""

\* both .../issues/12 and .../issues/1 are synced and the lookup for
\* .../issues/1 has returned
C25_WitnessSeveralMatch ==
  /\ cmd = "findIssueByGitHubUrl"
  /\ pc = "done"
  /\ Len(IssueNodes(githubUrl)) >= 2
  /\ SyncedFrom(githubUrl) # {}

(***************************************************************************)
(* The API key of LinearClientWrapper (linear-client.ts:3-12) and the      *)
(* requests that carry it                                                  *)
(***************************************************************************)
MaxWrappers == 2
MaxRequests == 3

ApiKeys == {"lin_api_A", "lin_api_B"}

\* constructor(apiKey) { linearApiKey = apiKey; this.client = new LinearClient({ apiKey }) }
NewLinearClientWrapper ==
  /\ cmd = "LinearClientWrapper"
  /\ Len(wrappers) < MaxWrappers
  /\ \E apiKey \in ApiKeys :
       /\ linearApiKey' = apiKey
       /\ wrappers' = Append(wrappers, apiKey)
  /\ UNCHANGED <<cmd, pc, exitCode, pollVars, envPollVars, cpVars, envLinearVars, linearVars,
                 silVars, calls, envProjVars, linearIssues, githubUrl, rawRequests, patchVars,
                 prVars, startupVars, gpVars, spdfVars, buVars, cfVars, gitBranches, csiVars>>

Request(instance, via, authorization) ==
  [instance |-> instance, via |-> via, authorization |-> authorization,
   latest |-> Len(wrappers)]

\* a method of an instance that posts to api.linear.app/graphql with fetch:
\* headers: { 'Authorization': linearApiKey }   (lines 76, 125, 278, 313, 459)
RawGraphQLRequest ==
  /\ cmd = "LinearClientWrapper"
  /\ Len(rawRequests) < MaxRequests
  /\ \E instance \in DOMAIN wrappers :
       rawRequests' = Append(rawRequests, Request(instance, "fetch", linearApiKey))
  /\ UNCHANGED <<cmd, pc, exitCode, pollVars, envPollVars, cpVars, envLinearVars, linearVars,
                 silVars, calls, envProjVars, linearIssues, githubUrl, linearApiKey, wrappers,
                 patchVars, prVars, startupVars, gpVars, spdfVars, buVars, cfVars, gitBranches,
                 csiVars>>

\* a method of an instance that goes through this.client, the SDK client
\* constructed with the instance's own apiKey
SdkRequest ==
  /\ cmd = "LinearClientWrapper"
  /\ Len(rawRequests) < MaxRequests
  /\ \E instance \in DOMAIN wrappers :
       rawRequests' = Append(rawRequests, Request(instance, "sdk", wrappers[instance]))
  /\ UNCHANGED <<cmd, pc, exitCode, pollVars, envPollVars, cpVars, envLinearVars, linearVars,
                 silVars, calls, envProjVars, linearIssues, githubUrl, linearApiKey, wrappers,
                 patchVars, prVars, startupVars, gpVars, spdfVars, buVars, cfVars, gitBranches,
                 csiVars>>

LinearKeyInit ==
  /\ Start("LinearClientWrapper")
  /\ apiKeySet = TRUE
  /\ EnvLoaded
  /\ IdleLinear
  /\ IdleProject
  /\ NoBranchUtilsCall

LinearKeyNext ==
  \/ NewLinearClientWrapper
  \/ RawGraphQLRequest
  \/ SdkRequest

LinearKeySpec == LinearKeyInit /\ [][LinearKeyNext]_vars

\* C26: every raw GraphQL request made through a LinearClientWrapper instance
\* carries the API key passed to that instance's constructor, also after
\* another instance was constructed with a different key.
C26_OwnKey ==
  \A n \in DOMAIN rawRequests :
    rawRequests[n].via = "fetch" =>
      rawRequests[n].authorization = wrappers[rawRequests[n].instance]

\* what the requests do carry: the SDK's requests the instance's own key, the
\* raw ones the key of the instance constructed last
C26_LastConstructedKey ==
  \A n \in DOMAIN rawRequests :
    rawRequests[n].authorization =
      wrappers[IF rawRequests[n].via = "fetch" THEN rawRequests[n].latest
               ELSE rawRequests[n].instance]

\* the first instance sends a raw request after a second instance was
\* constructed with the other key
C26_WitnessTwoKeys ==
  /\ Len(wrappers) = 2
  /\ wrappers[1] # wrappers[2]
  /\ \E n \in DOMAIN rawRequests :
       /\ rawRequests[n].via = "fetch"
       /\ rawRequests[n].instance = 1
       /\ rawRequests[n].latest = 2

\* the last updateIssueMetadata call and the last write after the step
LastCall == calls'[Len(calls')]
LastInput == writes'[Len(writes')].input

\* C27: updateIssueMetadata sends a sparse patch: the update input holds
\* exactly the fields whose argument was given (for labels: a non-empty list),
\* a field is changed on the Linear issue only by a write that holds it, so an
\* omitted field keeps its value; the label write of setIssueLabels leaves due
\* date and project as they are, the due-date/project write leaves the labels.
C27_SparsePatch ==
  [][ /\ issue'.dueDate # issue.dueDate => (writes' # writes /\ LastInput.hasDueDate)
      /\ issue'.projectId # issue.projectId => (writes' # writes /\ LastInput.hasProjectId)
      /\ issue'.labelIds # issue.labelIds => (writes' # writes /\ LastInput.hasLabelIds)
      /\ calls' # calls =>
           /\ writes' # writes =>
                /\ LastInput.hasDueDate = (LastCall.dueDate # "")
                /\ LastInput.hasProjectId = (LastCall.projectId # "")
                /\ LastInput.hasLabelIds = (LastCall.labelIds # <<>>)
           /\ LastCall.dueDate = "" => issue'.dueDate = issue.dueDate
           /\ LastCall.projectId = "" => issue'.projectId = issue.projectId
           /\ LastCall.labelIds = <<>> => issue'.labelIds = issue.labelIds
           /\ LastCall.from = "setIssueLabels" =>
                issue'.dueDate = issue.dueDate /\ issue'.projectId = issue.projectId
           /\ LastCall.from = "createParentIssue" => issue'.labelIds = issue.labelIds
    ]_vars

\* the labels were written, then the due date without a project: the issue
\* keeps the labels and has no project
C27_Witness ==
  /\ cmd = "createParentIssue"
  /\ pc = "done"
  /\ Len(calls) = 2
  /\ calls[1].from = "setIssueLabels"
  /\ calls[2].dueDate # "" /\ calls[2].projectId = ""
  /\ Len(writes) >= 2
  /\ writes[Len(writes)].applied
  /\ ~writes[Len(writes)].input.hasProjectId
  /\ ~writes[Len(writes)].input.hasLabelIds
  /\ issue.labelIds = calls[1].labelIds
  /\ issue.dueDate = calls[2].dueDate
  /\ issue.projectId = ""

\* one of the four values of the commit message is not resolved
CommitValueMissing ==
  cfLinearId = <<>> \/ cfPrefix = <<>> \/ cfTitle = <<>> \/ cfIssueNumber = ""

\* the values are resolved in the order Linear issue ID, commit type (when
\* prompted for), title, GitHub issue number, and 'git commit' runs after all
\* of them; a run that ends with a value missing has exited with 1, no commit
ResolvedInOrder ==
  cmd = "commitFirst" =>
    /\ prompts > 0 => cfLinearId # <<>>
    /\ cfTitle # <<>> => (cfLinearId # <<>> /\ cfPrefix # <<>>)
    /\ cfIssueNumber # "" => cfTitle # <<>>
    /\ commits # <<>> => ~CommitValueMissing
    /\ (pc \in {"done", "exited"} /\ CommitValueMissing) => (exitCode = 1 /\ commits = <<>>)

\* C28: commitFirst runs 'git commit' only after Linear issue ID, commit type,
\* title and GitHub issue number were resolved, in that order; when one is
\* missing it exits with 1 without a commit; the commit made has the subject
\* '{type}: {linearId} {title}' and the body 'solve: #{githubIssueNumber}'.
C28_CommitAfterResolution ==
  /\ ResolvedInOrder
  /\ \A k \in DOMAIN commits :
       commits[k].created =>
         /\ commits[k].subject = commitTitle
         /\ commits[k].body = commitBody

\* a title free of "$(" and of a backslash reaches git unchanged
ShellSafe(str) == \A i \in DOMAIN str : str[i] \notin {"$", "\\"}

\* C28 without the titles the shell rewrites
C28_ShellSafeTitles ==
  /\ ResolvedInOrder
  /\ \A k \in DOMAIN commits :
       (commits[k].created /\ ShellSafe(cfTitle)) =>
         /\ commits[k].subject = commitTitle
         /\ commits[k].body = commitBody

\* a commit was made for the title  Say "hi"  after a prompt for the type
C28_WitnessQuoted ==
  /\ cmd = "commitFirst"
  /\ pc = "done"
  /\ prompts = 1
  /\ Len(commits) = 1 /\ commits[1].created
  /\ \E i \in DOMAIN cfTitle : cfTitle[i] = "\""
  /\ commits[1].subject = commitTitle

\* C29: round trip between branch creation and lgcmf: for every owner, title
\* and linearId of the form upper-case letters, hyphen, digits,
\* extractLinearIssueId(generateBranchName(owner, linearId, title)) = linearId.
C29_RoundTrip ==
  (cmd = "generateBranchName" /\ pc = "done" /\ HasIdForm(args.linearId))
    => extractLinearIssueId(output) = args.linearId

\* the round trip holds for the version of branch-utils that sanitizes the owner
C29_OwnerVersion ==
  (cmd = "generateBranchName" /\ pc = "done" /\ HasIdForm(args.linearId)
     /\ branchUtils = "owner")
    => extractLinearIssueId(output) = args.linearId

\* the owner AB-1 has the form of an identifier itself and the title adds digits
C29_WitnessIdLikeOwner ==
  /\ cmd = "generateBranchName"
  /\ pc = "done"
  /\ branchUtils = "owner"
  /\ args.owner = <<"A", "B", "-", "1">>
  /\ args.linearId = <<"A", "-", "0">>
  /\ output = <<"a", "b", "-", "1", "/", "A", "-", "0", "-", "a">>

\* C30: createSubIssue creates the GitHub issue first and sends the
\* addSubIssue mutation after it; it returns the created issue only when the
\* mutation completed without error, so it never returns with a created but
\* unlinked issue; when linking fails the call throws, and the issue created
\* before stays (no step takes a created issue back).
C30_ReturnsOnlyLinked ==
  [][ cmd = "createSubIssue" =>
        /\ subLinks' > 0 => ghIssues' = 1
        /\ subIssueLinked' => subLinks' = 1
        /\ csiStatus' = "returned" => (ghIssues' = 1 /\ subIssueLinked')
        /\ (subLinks' > 0 /\ ~subIssueLinked') => csiStatus' = "threw"
        /\ ghIssues' >= ghIssues
    ]_vars

\* the mutation failed: the call has thrown and the created issue is still there
C30_Witness ==
  /\ cmd = "createSubIssue"
  /\ csiStatus = "threw"
  /\ ghIssues = 1
  /\ subLinks = 1
  /\ ~subIssueLinked

\* the call has returned the created and linked issue
C30_WitnessReturned ==
  /\ cmd = "createSubIssue"
  /\ csiStatus = "returned"
  /\ ghIssues = 1
  /\ subIssueLinked

====
